---------------------------- MODULE Spec2Model ----------------------------
(***************************************************************************)
(* Model of the resilient API client of package-pilot:                     *)
(*   src/src/ai/client.ts                  ApiClient (cache, retry loop)   *)
(*   src/src/test/services/offlineMode.ts  OfflineModeService (the module  *)
(*                                         client.ts imports)              *)
(*   src/src/ai/offlineMode-previous.ts    OfflineModeService with a live  *)
(*                                         setRateLimited, its listeners   *)
(*   src/src/ai/recommendations.ts         the completion requests         *)
(*   src/src/analysis/rateLimitHandler.ts  RateLimitHandler (paced queue)  *)
(* Times are milliseconds.  Backoff delays are kept in hundredths of a     *)
(* millisecond so that the jitter multiplier (two decimals) stays exact.   *)
(***************************************************************************)
EXTENDS Integers, Sequences, FiniteSets, TLC

VARIABLES
    now,               \* Date.now()
    isOfflineMode,     \* OfflineModeService._isOfflineMode
    rateLimitedUntil,  \* OfflineModeService._rateLimitedUntil (Null or a time)
    maxRetries,        \* ApiClient.maxRetries
    initialBackoffMs,  \* ApiClient.initialBackoffMs
    cache,             \* ApiClient.cache: entries in Map insertion order
    pc,                \* per call of request(): where it is suspended
    args,              \* per call: method, url, data, options
    retries,           \* per call: local `retries`
    lastError,         \* per call: local `lastError`
    backoffTime,       \* per call: the delay handed to delay(), in 1/100 ms
    outcome,           \* per call: how the promise settled
    dispatches,        \* per call: number of this.client.request() dispatches
    lookups,           \* per call: number of getFromCache() calls
    answers,           \* per call: the transport's answers so far (history)
    evicted,           \* the Map as the last put left it before its eviction pass, and
                       \* what the pass removed (history; reset by clearCache)
    putLog,            \* per key ever put: time and value of its latest put, and
                       \* whether that entry is still in the Map (history)
    ticks,             \* number of clock advances so far
    fnIn,              \* inputs of a pure function under check
    fnOut,             \* its result
    listeners,         \* OfflineModeService._listeners, in insertion order
    handles,           \* the listeners an unsubscribe closure was returned for
    lastOp,            \* the last call of the service: its argument, what it
                       \* returned, the transitions it made and the listener
                       \* invocations it caused, in order (history)
    queue,             \* RateLimitHandler.queue: the calls waiting, oldest first
    isProcessing,      \* RateLimitHandler.isProcessing
    current,           \* the call processQueue() is awaiting, its retryCount
                       \* and whether it is in flight or in its retry wait
    timers,            \* due times of the pending setTimeout(processQueue)
    submitted,         \* number of calls enqueued so far
    dispatchLog,       \* the call of every requestFn() invocation (history)
    settleLog,         \* every settled promise: call and outcome (history)
    lastSettledAt,     \* when processQueue() last saw its call settle (history)
    aiIsOfflineMode,   \* _isOfflineMode of the service instance of ./ai/offlineMode
    job,               \* per caller: the collaborator function running and its position
    jobResult,         \* per caller: what the collaborator function returned
    fetchCalls,        \* every fetchNpmMetadata call: its names and its packageData
    registryInFlight,  \* the axios.get lookups of fetchNpmMetadata awaiting an answer
    fetchedAt,         \* per name: when its registry lookup last succeeded (history)
    lastLookupAt,      \* when a registry lookup was last dispatched (history)
    cancelRequested,   \* per caller: the caller asked to cancel its request
    answered           \* the answer executeWithRetry last received (history)

\* the variables of the listener registry
observerVars == <<listeners, handles, lastOp>>

\* the variables of the RateLimitHandler
pacerVars == <<queue, isProcessing, current, timers, submitted, dispatchLog,
               settleLog, lastSettledAt, answered>>

\* the variables of the collaborators in recommendations.ts and of the
\* service instance they and the toggle command import
collaboratorVars == <<aiIsOfflineMode, job, jobResult>>

\* the variables of fetchNpmMetadata
metadataVars == <<fetchCalls, registryInFlight, fetchedAt, lastLookupAt>>

vars == <<now, isOfflineMode, rateLimitedUntil, maxRetries, initialBackoffMs,
          cache, pc, args, retries, lastError, backoffTime, outcome,
          dispatches, lookups, answers, evicted, putLog, ticks, fnIn, fnOut,
          observerVars, pacerVars, collaboratorVars, metadataVars, cancelRequested>>

-----------------------------------------------------------------------------
(* Program constants *)

\* client.ts:25  private cacheTTLMs = 1000 * 60 * 60
cacheTTLMs == 3600000

\* client.ts:235  if (this.cache.size > 100)
MaxCacheSize == 100

\* client.ts:240  .slice(0, 20)
EvictCount == 20

\* client.ts:215  Math.min(baseBackoff * jitter, 30000)
BackoffCapMs == 30000

\* client.ts:214  Math.random() * 0.5 + 0.75, in hundredths
JitterMin == 75

JitterMax == 125

\* offlineMode.ts:8  _rateLimitedUntil: number | null = null
Null == -1

\* rateLimitHandler.ts:201  createNpmApiHandler: requestsPerMinute: 30
requestsPerMinute == 30

\* rateLimitHandler.ts:38  60000 / this.requestsPerMinute
delayBetweenRequests == 60000 \div requestsPerMinute

\* rateLimitHandler.ts:202  createNpmApiHandler: maxRetries: 3
pacerMaxRetries == 3

\* rateLimitHandler.ts:40  options.baseRetryDelay || 2000
baseRetryDelay == 2000

\* rateLimitHandler.ts:41-44  true unless the option says otherwise
useExponentialBackoff == TRUE

-----------------------------------------------------------------------------
(* Bounds of the model *)

MaxMaxRetries == 3

MaxTicks == 2

MaxExponent == 6

\* calls handed to a RateLimitHandler
MaxCalls == 3

-----------------------------------------------------------------------------
(* Values *)

Procs == {1, 2}

\* JavaScript truthiness of a body or of null
Truthy(v) == v \notin {"", "0", "false", "null"}

\* String.prototype.toLowerCase on the method names used
ToLowerCase(m) ==
    CASE m = "GET" -> "get"
      [] m = "Get" -> "get"
      [] m = "POST" -> "post"
      [] OTHER -> m

NoArgs == [method |-> "", url |-> "", data |-> "", cacheKey |-> "",
           cacheTTL |-> 0, forceRefresh |-> FALSE]

NoError == [type |-> "none", hasResponse |-> FALSE, status |-> 0]

\* new Error("API request failed: Offline mode is active")
OfflineError == [type |-> "offline", hasResponse |-> FALSE, status |-> 0]

\* an AxiosError: error.response is undefined, or carries a status
AxiosError(hasResponse, status) ==
    [type |-> "axios", hasResponse |-> hasResponse,
     status |-> IF hasResponse THEN status ELSE 0]

NoOutcome == [kind |-> "none", value |-> "null", error |-> NoError]

Returned(v) == [kind |-> "returned", value |-> v, error |-> NoError]

Threw(e) == [kind |-> "threw", value |-> "null", error |-> e]

-----------------------------------------------------------------------------
(* OfflineModeService *)

IsRateLimited ==
    rateLimitedUntil # Null /\ now < rateLimitedUntil

ShouldUseOfflineMode ==
    isOfflineMode \/ IsRateLimited

-----------------------------------------------------------------------------
(* ApiClient: cache *)

\* the position of key k in the Map, 0 when absent
CacheIndex(c, k) ==
    IF \E i \in 1..Len(c) : c[i].key = k
    THEN CHOOSE i \in 1..Len(c) : c[i].key = k
    ELSE 0

\* Map.prototype.set: an existing key keeps its place in the insertion order
MapSet(c, k, e) ==
    IF CacheIndex(c, k) = 0
    THEN Append(c, e)
    ELSE [c EXCEPT ![CacheIndex(c, k)] = e]

SortRank_Descending(entries, i) ==
    Cardinality({j \in 1..Len(entries) :
        \/ entries[j].timestamp > entries[i].timestamp
        \/ entries[j].timestamp = entries[i].timestamp /\ j < i})

\* position (from 0) of entries[i] after the stable ascending sort by timestamp
SortRank(entries, i) ==
    Cardinality({j \in 1..Len(entries) :
        \/ entries[j].timestamp < entries[i].timestamp
        \/ entries[j].timestamp = entries[i].timestamp /\ j < i})

\* entries.sort((a, b) => a[1].timestamp - b[1].timestamp)
SortByTimestamp(entries) ==
    LET rank == [i \in 1..Len(entries) |-> SortRank(entries, i)]
    IN  [r \in 1..Len(entries) |->
            entries[CHOOSE i \in 1..Len(entries) : rank[i] = r - 1]]

\* Array.prototype.slice(0, n)
SliceFirst(s, n) ==
    SubSeq(s, 1, IF n < Len(s) THEN n ELSE Len(s))

\* the eviction pass deleting the newest entries instead
OldestEntries_Newest(c) ==
    IF Len(c) > MaxCacheSize
    THEN LET sorted == SortByTimestamp(c)
         IN  SubSeq(sorted, Len(sorted) - EvictCount + 1, Len(sorted))
    ELSE <<>>

\* the entries the eviction pass deletes
OldestEntries(c) ==
    IF Len(c) > MaxCacheSize
    THEN SliceFirst(SortByTimestamp(c), EvictCount)
    ELSE <<>>

\* Map.prototype.delete for every key of ks
DeleteKeys(c, ks) ==
    LET Kept(e) == e.key \notin ks
    IN  SelectSeq(c, Kept)

addToCache(c, key, data, t) ==
    LET set == MapSet(c, key, [key |-> key, timestamp |-> t, data |-> data])
        oldest == OldestEntries(set)
    IN  DeleteKeys(set, {oldest[i].key : i \in 1..Len(oldest)})

getFromCache_InclusiveTTL(c, key, ttl, t) ==
    LET i == CacheIndex(c, key)
    IN  IF i # 0 /\ t - c[i].timestamp <= ttl
        THEN c[i].data
        ELSE "null"

getFromCache(c, key, ttl, t) ==
    LET i == CacheIndex(c, key)
    IN  IF i # 0 /\ t - c[i].timestamp < ttl
        THEN c[i].data
        ELSE "null"

\* what the eviction pass of a put removed, for the record
EvictionRecord(c, key, data, t) ==
    LET set == MapSet(c, key, [key |-> key, timestamp |-> t, data |-> data])
    IN  [before |-> set, removed |-> OldestEntries(set)]

NoEviction == [before |-> <<>>, removed |-> <<>>]

-----------------------------------------------------------------------------
(* ApiClient: retry policy *)

isRateLimitError(error) ==
    error.hasResponse /\ error.status = 429

shouldRetry_NoNetworkRetry(error, n, max) ==
    IF n >= max THEN FALSE
    ELSE IF error.hasResponse /\ error.status = 429 THEN FALSE
    ELSE error.hasResponse /\ error.status >= 500 /\ error.status < 600

shouldRetry_OffByOne(error, n, max) ==
    IF n + 1 >= max THEN FALSE
    ELSE IF error.hasResponse /\ error.status = 429 THEN FALSE
    ELSE \/ ~error.hasResponse
         \/ error.status >= 500 /\ error.status < 600

shouldRetry_Inclusive600(error, n, max) ==
    IF n >= max THEN FALSE
    ELSE IF error.hasResponse /\ error.status = 429 THEN FALSE
    ELSE \/ ~error.hasResponse
         \/ error.status >= 500 /\ error.status <= 600

shouldRetry(error, n, max) ==
    IF n >= max THEN FALSE
    ELSE IF error.hasResponse /\ error.status = 429 THEN FALSE
    ELSE \/ ~error.hasResponse
         \/ error.status >= 500 /\ error.status < 600

\* Math.pow(2, n)
Pow2(n) == 2 ^ n

Min(a, b) == IF a < b THEN a ELSE b

calculateBackoff_CapBeforeJitter(initial, n, jitter) ==
    Min(initial * Pow2(n), BackoffCapMs) * jitter

calculateBackoff_NoCap(initial, n, jitter) ==
    initial * Pow2(n) * jitter

\* initial in ms, jitter in hundredths, the result in 1/100 ms
calculateBackoff(initial, n, jitter) ==
    LET baseBackoff == initial * Pow2(n)
    IN  Min(baseBackoff * jitter, BackoffCapMs * 100)

-----------------------------------------------------------------------------
(* ApiClient.request *)

\* options?.cacheKey || `${method}:${url}:${JSON.stringify(data || {})}`
CacheKeyOf(a) ==
    IF a.cacheKey # ""
    THEN <<a.cacheKey>>
    ELSE <<a.method, a.url, IF a.data # "" THEN a.data ELSE "{}">>

\* options?.cacheTTL || this.cacheTTLMs
CacheTTLOf(a) ==
    IF a.cacheTTL # 0 THEN a.cacheTTL ELSE cacheTTLMs

\* method.toLowerCase() === "get"
IsGet(a) == ToLowerCase(a.method) = "get"

\* lines 62-64: throw new Error("... Offline mode is active")
RejectOffline(p) ==
    /\ pc' = [pc EXCEPT ![p] = "done"]
    /\ outcome' = [outcome EXCEPT ![p] = Threw(OfflineError)]
    /\ lookups' = [lookups EXCEPT ![p] = 0]
    /\ dispatches' = [dispatches EXCEPT ![p] = 0]

\* lines 78-103: retries = 0 and the first pass through the loop's dispatch
FirstDispatch(p) ==
    /\ pc' = [pc EXCEPT ![p] = "inflight"]
    /\ outcome' = [outcome EXCEPT ![p] = NoOutcome]
    /\ dispatches' = [dispatches EXCEPT ![p] = 1]

\* lines 66-103: the cache lookup of a GET, then the first dispatch
LookupOrDispatch(p, a) ==
    IF IsGet(a) /\ ~a.forceRefresh
    THEN LET cachedResult == getFromCache(cache, CacheKeyOf(a), CacheTTLOf(a), now)
         IN  /\ lookups' = [lookups EXCEPT ![p] = 1]
             /\ IF Truthy(cachedResult)
                THEN /\ pc' = [pc EXCEPT ![p] = "done"]
                     /\ outcome' = [outcome EXCEPT ![p] = Returned(cachedResult)]
                     /\ dispatches' = [dispatches EXCEPT ![p] = 0]
                ELSE FirstDispatch(p)
    ELSE /\ lookups' = [lookups EXCEPT ![p] = 0]
         /\ FirstDispatch(p)

Call_SkipOfflineCheck(p, a) ==
    /\ pc[p] \in {"idle", "done"}
    /\ args' = [args EXCEPT ![p] = a]
    /\ retries' = [retries EXCEPT ![p] = 0]
    /\ lastError' = [lastError EXCEPT ![p] = NoError]
    /\ answers' = [answers EXCEPT ![p] = <<>>]
    /\ cancelRequested' = [cancelRequested EXCEPT ![p] = FALSE]
    /\ LookupOrDispatch(p, a)
    /\ UNCHANGED <<now, isOfflineMode, rateLimitedUntil, maxRetries, initialBackoffMs,
                   cache, backoffTime, evicted, putLog, ticks, fnIn, fnOut,
                   observerVars, pacerVars, collaboratorVars, metadataVars>>

\* request() from its call to its first suspension or its end (lines 61-103),
\* as it acts on the client and on the service the client imports
request(p, a) ==
    /\ pc[p] \in {"idle", "done"}
    /\ args' = [args EXCEPT ![p] = a]
    /\ retries' = [retries EXCEPT ![p] = 0]
    /\ lastError' = [lastError EXCEPT ![p] = NoError]
    /\ answers' = [answers EXCEPT ![p] = <<>>]
    /\ cancelRequested' = [cancelRequested EXCEPT ![p] = FALSE]
    /\ IF ShouldUseOfflineMode
       THEN RejectOffline(p)
       ELSE LookupOrDispatch(p, a)
    /\ UNCHANGED <<now, isOfflineMode, rateLimitedUntil, maxRetries, initialBackoffMs,
                   cache, backoffTime, evicted, putLog, ticks, fnIn, fnOut,
                   observerVars, pacerVars, metadataVars>>

\* request() that joins a dispatch already in flight for the same key
\* instead of making its own
Call_Coalesce(p, a) ==
    /\ IF \E q \in Procs :
             q # p /\ pc[q] = "inflight" /\ CacheKeyOf(args[q]) = CacheKeyOf(a)
       THEN /\ pc[p] \in {"idle", "done"}
            /\ args' = [args EXCEPT ![p] = a]
            /\ retries' = [retries EXCEPT ![p] = 0]
            /\ lastError' = [lastError EXCEPT ![p] = NoError]
            /\ answers' = [answers EXCEPT ![p] = <<>>]
            /\ pc' = [pc EXCEPT ![p] = "inflight"]
            /\ outcome' = [outcome EXCEPT ![p] = NoOutcome]
            /\ lookups' = [lookups EXCEPT ![p] = 1]
            /\ dispatches' = [dispatches EXCEPT ![p] = 0]
            /\ cancelRequested' = [cancelRequested EXCEPT ![p] = FALSE]
            /\ UNCHANGED <<now, isOfflineMode, rateLimitedUntil, maxRetries,
                           initialBackoffMs, cache, backoffTime, evicted, putLog,
                           ticks, fnIn, fnOut, observerVars, pacerVars,
                           metadataVars>>
       ELSE request(p, a)
    /\ UNCHANGED collaboratorVars

\* request() called by a consumer other than recommendations.ts
Call(p, a) ==
    /\ request(p, a)
    /\ UNCHANGED collaboratorVars

\* the record of puts after put(key, data) at time t on cache c
LoggedPut(log, c, key, data, t) ==
    LET gone == EvictionRecord(c, key, data, t).removed
        goneKeys == {gone[i].key : i \in 1..Len(gone)}
        old == [k \in DOMAIN log |->
                   IF k \in goneKeys THEN [log[k] EXCEPT !.live = FALSE] ELSE log[k]]
    IN  (key :> [at |-> t, value |-> data, live |-> key \notin goneKeys]) @@ old

OnSuccess_CacheAnyMethod(p, r) ==
    /\ cache' = addToCache(cache, CacheKeyOf(args[p]), r.body, now)
    /\ evicted' = EvictionRecord(cache, CacheKeyOf(args[p]), r.body, now)
    /\ putLog' = LoggedPut(putLog, cache, CacheKeyOf(args[p]), r.body, now)
    /\ pc' = [pc EXCEPT ![p] = "done"]
    /\ outcome' = [outcome EXCEPT ![p] = Returned(r.body)]
    /\ UNCHANGED <<lastError, backoffTime>>

\* lines 105-110: cache a GET's body and return it
OnSuccess(p, r) ==
    /\ IF IsGet(args[p])
       THEN /\ cache' = addToCache(cache, CacheKeyOf(args[p]), r.body, now)
            /\ evicted' = EvictionRecord(cache, CacheKeyOf(args[p]), r.body, now)
            /\ putLog' = LoggedPut(putLog, cache, CacheKeyOf(args[p]), r.body, now)
       ELSE UNCHANGED <<cache, evicted, putLog>>
    /\ pc' = [pc EXCEPT ![p] = "done"]
    /\ outcome' = [outcome EXCEPT ![p] = Returned(r.body)]
    /\ UNCHANGED <<lastError, backoffTime>>

\* lines 152-154: handleApiError(lastError); throw lastError
ThrowLastError(p, error) ==
    /\ pc' = [pc EXCEPT ![p] = "done"]
    /\ outcome' = [outcome EXCEPT ![p] = Threw(error)]
    /\ UNCHANGED backoffTime

\* lines 134-145: calculateBackoff, then await delay(backoffTime)
Backoff(p, jitter) ==
    /\ backoffTime' = [backoffTime EXCEPT ![p] =
           calculateBackoff(initialBackoffMs, retries[p], jitter) ]
    /\ pc' = [pc EXCEPT ![p] = "sleeping"]
    /\ UNCHANGED outcome

OnError_RetryRateLimit(p, r, jitter) ==
    LET error == AxiosError(r.hasResponse, r.status)
    IN  /\ lastError' = [lastError EXCEPT ![p] = error]
        /\ UNCHANGED <<cache, evicted, putLog>>
        /\ IF shouldRetry(error, retries[p], maxRetries)
              \/ (isRateLimitError(error) /\ retries[p] < maxRetries)
           THEN Backoff(p, jitter)
           ELSE ThrowLastError(p, error)

\* lines 111-154: the catch block
OnError(p, r, jitter) ==
    LET error == AxiosError(r.hasResponse, r.status)
    IN  /\ lastError' = [lastError EXCEPT ![p] = error]
        /\ UNCHANGED <<cache, evicted, putLog>>
        /\ IF isRateLimitError(error)
           THEN ThrowLastError(p, error)
           ELSE IF shouldRetry(error, retries[p], maxRetries)
           THEN Backoff(p, jitter)
           ELSE ThrowLastError(p, error)

\* request() from the settling of a dispatch to its next suspension or its end
\* (lines 98-154); r is the transport's answer, jitter the Math.random() draw
Respond(p, r, jitter) ==
    /\ pc[p] = "inflight"
    /\ answers' = [answers EXCEPT ![p] = Append(answers[p], r)]
    /\ IF r.ok THEN OnSuccess(p, r) ELSE OnError(p, r, jitter)
    /\ UNCHANGED <<now, isOfflineMode, rateLimitedUntil, maxRetries, initialBackoffMs,
                   args, retries, dispatches, lookups, ticks, fnIn, fnOut,
                   observerVars, pacerVars, collaboratorVars, metadataVars, cancelRequested>>

\* request() from the end of delay(backoffTime) to the next dispatch
\* (lines 144-145, 82-103)
Wake(p) ==
    /\ pc[p] = "sleeping"
    /\ retries' = [retries EXCEPT ![p] = retries[p] + 1]
    /\ backoffTime' = [backoffTime EXCEPT ![p] = 0]
    /\ IF retries[p] + 1 <= maxRetries
       THEN /\ pc' = [pc EXCEPT ![p] = "inflight"]
            /\ dispatches' = [dispatches EXCEPT ![p] = dispatches[p] + 1]
            /\ UNCHANGED outcome
       ELSE /\ pc' = [pc EXCEPT ![p] = "done"]
            /\ outcome' = [outcome EXCEPT ![p] = Threw(lastError[p])]
            /\ UNCHANGED dispatches
    /\ UNCHANGED <<now, isOfflineMode, rateLimitedUntil, maxRetries, initialBackoffMs,
                   cache, args, lastError, lookups, answers, evicted, putLog, ticks,
                   fnIn, fnOut,
                   observerVars, pacerVars, collaboratorVars, metadataVars, cancelRequested>>

\* the caller of request p asks to cancel it.  request() takes no
\* cancellation token, ignores the token of withProgress (lines 98-103) and
\* keeps no handle of the setTimeout of delay() (lines 221-223): nothing in
\* the client reads the wish
Cancel(p) ==
    /\ pc[p] \in {"inflight", "sleeping"}
    /\ ~cancelRequested[p]
    /\ cancelRequested' = [cancelRequested EXCEPT ![p] = TRUE]
    /\ UNCHANGED <<now, isOfflineMode, rateLimitedUntil, maxRetries, initialBackoffMs,
                   cache, pc, args, retries, lastError, backoffTime, outcome,
                   dispatches, lookups, answers, evicted, putLog, ticks, fnIn, fnOut,
                   observerVars, pacerVars, collaboratorVars, metadataVars>>

clearCache_KeepEntries ==
    /\ cache' = cache
    /\ putLog' = [k \in DOMAIN putLog |-> [putLog[k] EXCEPT !.live = FALSE]]
    /\ evicted' = NoEviction
    /\ UNCHANGED <<now, isOfflineMode, rateLimitedUntil, maxRetries, initialBackoffMs,
                   pc, args, retries, lastError, backoffTime, outcome, dispatches,
                   lookups, answers, ticks, fnIn, fnOut,
                   observerVars, pacerVars, collaboratorVars, metadataVars, cancelRequested>>

\* ApiClient.handleApiError (lines 262-301): which message it shows for the
\* error, "none" when it shows nothing (status 429)
handleApiError(error) ==
    IF ~error.hasResponse THEN "network"
    ELSE CASE error.status = 429 -> "none"
           [] error.status = 401 -> "auth"
           [] error.status = 403 -> "forbidden"
           [] error.status \in {500, 502, 503, 504} -> "server"
           [] OTHER -> "unknown"

\* the category a failure of request() is surfaced with: the offline error is
\* thrown before anything else runs (lines 62-64), every other failure passes
\* through handleApiError before throw lastError (lines 153-154); the thrown
\* value itself is the bare Error or AxiosError
SurfacedCategory(o) ==
    IF o.error.type = "offline" THEN "none" ELSE handleApiError(o.error)

\* ApiClient.clearCache
clearCache ==
    /\ cache' = <<>>
    /\ putLog' = [k \in DOMAIN putLog |-> [putLog[k] EXCEPT !.live = FALSE]]
    /\ evicted' = NoEviction
    /\ UNCHANGED <<now, isOfflineMode, rateLimitedUntil, maxRetries, initialBackoffMs,
                   pc, args, retries, lastError, backoffTime, outcome, dispatches,
                   lookups, answers, ticks, fnIn, fnOut,
                   observerVars, pacerVars, collaboratorVars, metadataVars, cancelRequested>>

-----------------------------------------------------------------------------
(* OfflineModeService: operations.  A call of the service runs to its end *)
(* without suspension, the listeners it invokes and the calls they make    *)
(* back into the service included; the operators below compute its effect  *)
(* on a record S of the service's fields and of what the call did so far.  *)

\* the callbacks handed to addListener, named by what they do when invoked:
\* return, throw, or call toggleOfflineMode(false) when told the mode is
\* offline
Listeners == {"logs", "throws", "forcesOnline"}

\* Set.prototype.add: a member keeps its place in the insertion order
SetAdd(ls, l) ==
    IF \E i \in 1..Len(ls) : ls[i] = l THEN ls ELSE Append(ls, l)

\* Set.prototype.delete
SetDelete(ls, l) ==
    LET Other(x) == x # l
    IN  SelectSeq(ls, Other)

\* the service's fields at the start of a call
ServiceAtCall ==
    [isOfflineMode |-> isOfflineMode, rateLimitedUntil |-> rateLimitedUntil,
     listeners |-> listeners, transitions |-> <<>>, invocations |-> <<>>,
     errors |-> 0, threw |-> FALSE, ret |-> "none"]

\* getState()'s lazy reset of an expired lockout, as run by _notifyListeners
ClearedIfExpired(until, t) ==
    IF until # Null /\ until # 0 /\ t > until THEN Null ELSE until

\* the object getState() returns at time t
StateAt(S, t) ==
    LET until == ClearedIfExpired(S.rateLimitedUntil, t)
    IN  [isOfflineMode |-> S.isOfflineMode,
         isRateLimited |-> until # Null /\ t < until,
         rateLimitedUntil |-> until]

RECURSIVE ForEachListener(_, _, _, _, _)
RECURSIVE ToggledOfflineMode(_, _, _)

\* the body of listener l, called with `state`
CallListener(S, l, state, t) ==
    CASE l = "throws" -> [S EXCEPT !.threw = TRUE]
      [] l = "forcesOnline" ->
            IF state.isOfflineMode THEN ToggledOfflineMode(S, "false", t) ELSE S
      [] OTHER -> S

TryListener_NoCatch(S, l, state, t) ==
    CallListener(S, l, state, t)

\* try { listener(state) } catch (error) { console.error(...) }
TryListener(S, l, state, t) ==
    LET after == CallListener(S, l, state, t)
    IN  IF after.threw
        THEN [after EXCEPT !.threw = FALSE, !.errors = @ + 1]
        ELSE after

\* this._listeners.forEach(...): the members not yet visited, in insertion
\* order, as the Set is when each is reached; n is the transition notified
ForEachListener(S, visited, n, state, t) ==
    LET Pending(l) == l \notin visited
        pending == SelectSeq(S.listeners, Pending)
    IN  IF pending = <<>>
        THEN S
        ELSE LET l == Head(pending)
                 invoked == [S EXCEPT !.invocations =
                                Append(@, [listener |-> l, n |-> n, state |-> state])]
                 after == TryListener(invoked, l, state, t)
             IN  IF after.threw
                 THEN after
                 ELSE ForEachListener(after, visited \cup {l}, n, state, t)

\* _notifyListeners(), after the transition that S.transitions now ends with
NotifyListeners(S, t) ==
    LET state == StateAt(S, t)
        noted == [S EXCEPT !.rateLimitedUntil = state.rateLimitedUntil,
                           !.transitions = Append(@, state)]
    IN  ForEachListener(noted, {}, Len(noted.transitions), state, t)

ToggledOfflineMode_NoLockout(S, force, t) ==
    LET set == [S EXCEPT !.isOfflineMode =
                   IF force = "undefined" THEN ~S.isOfflineMode
                   ELSE force = "true"]
        after == NotifyListeners(set, t)
    IN  IF after.threw
        THEN after
        ELSE [after EXCEPT !.ret = IF after.isOfflineMode THEN "true" ELSE "false"]

ToggledOfflineMode_IgnoreForce(S, force, t) ==
    IF S.rateLimitedUntil # Null /\ t < S.rateLimitedUntil
    THEN [S EXCEPT !.ret = IF S.isOfflineMode THEN "true" ELSE "false"]
    ELSE LET set == [S EXCEPT !.isOfflineMode = ~S.isOfflineMode]
             after == NotifyListeners(set, t)
         IN  IF after.threw
             THEN after
             ELSE [after EXCEPT !.ret = IF after.isOfflineMode THEN "true" ELSE "false"]

\* toggleOfflineMode(force); force is "undefined", "true" or "false"
ToggledOfflineMode(S, force, t) ==
    IF S.rateLimitedUntil # Null /\ t < S.rateLimitedUntil
    THEN [S EXCEPT !.ret = IF S.isOfflineMode THEN "true" ELSE "false"]
    ELSE LET set == [S EXCEPT !.isOfflineMode =
                        IF force = "undefined" THEN ~S.isOfflineMode
                        ELSE force = "true"]
             after == NotifyListeners(set, t)
         IN  IF after.threw
             THEN after
             ELSE [after EXCEPT !.ret = IF after.isOfflineMode THEN "true" ELSE "false"]

\* what a call left behind, for the record
OpRecord(op, arg, S) ==
    [op |-> op, arg |-> arg, ret |-> S.ret, threw |-> S.threw,
     transitions |-> S.transitions, invocations |-> S.invocations,
     errors |-> S.errors]

NoOp == [op |-> "none", arg |-> "none", ret |-> "none", threw |-> FALSE,
         transitions |-> <<>>, invocations |-> <<>>, errors |-> 0]

toggleOfflineMode(force) ==
    LET S == ToggledOfflineMode(ServiceAtCall, force, now)
    IN  /\ isOfflineMode' = S.isOfflineMode
        /\ rateLimitedUntil' = S.rateLimitedUntil
        /\ listeners' = S.listeners
        /\ lastOp' = OpRecord("toggleOfflineMode", force, S)
        /\ UNCHANGED <<now, maxRetries, initialBackoffMs, cache, pc, args, retries,
                       lastError, backoffTime, outcome, dispatches, lookups, answers,
                       evicted, putLog, ticks, fnIn, fnOut, handles, pacerVars, collaboratorVars, metadataVars, cancelRequested>>

SetRateLimited_KeepMode(S, limitedForSeconds, t) ==
    LET set == [S EXCEPT !.rateLimitedUntil = t + limitedForSeconds * 1000]
        after == NotifyListeners(set, t)
    IN  IF after.threw THEN after ELSE [after EXCEPT !.ret = "void"]

\* offlineMode-previous.ts: setRateLimited(limitedForSeconds)
SetRateLimited(S, limitedForSeconds, t) ==
    LET set == [S EXCEPT !.rateLimitedUntil = t + limitedForSeconds * 1000,
                         !.isOfflineMode = TRUE]
        after == NotifyListeners(set, t)
    IN  IF after.threw THEN after ELSE [after EXCEPT !.ret = "void"]

setRateLimited(limitedForSeconds) ==
    LET S == SetRateLimited(ServiceAtCall, limitedForSeconds, now)
    IN  /\ isOfflineMode' = S.isOfflineMode
        /\ rateLimitedUntil' = S.rateLimitedUntil
        /\ listeners' = S.listeners
        /\ lastOp' = OpRecord("setRateLimited", ToString(limitedForSeconds), S)
        /\ UNCHANGED <<now, maxRetries, initialBackoffMs, cache, pc, args, retries,
                       lastError, backoffTime, outcome, dispatches, lookups, answers,
                       evicted, putLog, ticks, fnIn, fnOut, handles, pacerVars, collaboratorVars, metadataVars, cancelRequested>>

\* addListener(listener): registers it and returns the closure that deletes it
\* getState() that leaves an expired deadline in place
getState_KeepDeadline ==
    LET S == [ServiceAtCall EXCEPT !.ret = ToString(rateLimitedUntil)]
    IN  /\ lastOp' = OpRecord("getState", ToString(rateLimitedUntil), S)
        /\ UNCHANGED <<isOfflineMode, rateLimitedUntil, listeners>>
        /\ UNCHANGED <<now, maxRetries, initialBackoffMs, cache, pc, args, retries,
                       lastError, backoffTime, outcome, dispatches, lookups, answers,
                       evicted, putLog, ticks, fnIn, fnOut, handles, pacerVars,
                       collaboratorVars, metadataVars, cancelRequested>>

\* OfflineModeService.getState (offlineMode-previous.ts:31-42), called by a
\* consumer: resets an expired _rateLimitedUntil, then returns the state.  The
\* record of the call keeps the deadline found and the deadline returned
getState ==
    LET state == StateAt(ServiceAtCall, now)
        S == [ServiceAtCall EXCEPT !.rateLimitedUntil = state.rateLimitedUntil,
                                   !.ret = ToString(state.rateLimitedUntil)]
    IN  /\ rateLimitedUntil' = S.rateLimitedUntil
        /\ lastOp' = OpRecord("getState", ToString(rateLimitedUntil), S)
        /\ UNCHANGED <<isOfflineMode, listeners>>
        /\ UNCHANGED <<now, maxRetries, initialBackoffMs, cache, pc, args, retries,
                       lastError, backoffTime, outcome, dispatches, lookups, answers,
                       evicted, putLog, ticks, fnIn, fnOut, handles, pacerVars,
                       collaboratorVars, metadataVars, cancelRequested>>

\* OfflineModeService.isRateLimited (lines 105-109), called by a consumer
isRateLimited ==
    LET S == [ServiceAtCall EXCEPT !.ret = IF IsRateLimited THEN "true" ELSE "false"]
    IN  /\ lastOp' = OpRecord("isRateLimited", "none", S)
        /\ UNCHANGED <<isOfflineMode, rateLimitedUntil, listeners>>
        /\ UNCHANGED <<now, maxRetries, initialBackoffMs, cache, pc, args, retries,
                       lastError, backoffTime, outcome, dispatches, lookups, answers,
                       evicted, putLog, ticks, fnIn, fnOut, handles, pacerVars,
                       collaboratorVars, metadataVars, cancelRequested>>

\* OfflineModeService.shouldUseOfflineMode (lines 114-116), called by a consumer
shouldUseOfflineMode ==
    LET S == [ServiceAtCall EXCEPT
                 !.ret = IF ShouldUseOfflineMode THEN "true" ELSE "false"]
    IN  /\ lastOp' = OpRecord("shouldUseOfflineMode", "none", S)
        /\ UNCHANGED <<isOfflineMode, rateLimitedUntil, listeners>>
        /\ UNCHANGED <<now, maxRetries, initialBackoffMs, cache, pc, args, retries,
                       lastError, backoffTime, outcome, dispatches, lookups, answers,
                       evicted, putLog, ticks, fnIn, fnOut, handles, pacerVars,
                       collaboratorVars, metadataVars, cancelRequested>>

addListener(l) ==
    /\ listeners' = SetAdd(listeners, l)
    /\ handles' = handles \cup {l}
    /\ lastOp' = OpRecord("addListener", l, [ServiceAtCall EXCEPT !.ret = "handle"])
    /\ UNCHANGED <<now, isOfflineMode, rateLimitedUntil, maxRetries, initialBackoffMs,
                   cache, pc, args, retries, lastError, backoffTime, outcome,
                   dispatches, lookups, answers, evicted, putLog, ticks, fnIn, fnOut,
                   pacerVars, collaboratorVars, metadataVars, cancelRequested>>

Unsubscribe_DeleteFirst(l) ==
    /\ l \in handles
    /\ listeners' = IF listeners = <<>> THEN listeners ELSE Tail(listeners)
    /\ lastOp' = OpRecord("unsubscribe", l, [ServiceAtCall EXCEPT !.ret = "void"])
    /\ UNCHANGED <<now, isOfflineMode, rateLimitedUntil, maxRetries, initialBackoffMs,
                   cache, pc, args, retries, lastError, backoffTime, outcome,
                   dispatches, lookups, answers, evicted, putLog, ticks, fnIn, fnOut,
                   handles, pacerVars, collaboratorVars, metadataVars, cancelRequested>>

\* a call of the closure addListener(l) returned:
\* () => { this._listeners.delete(listener) }
Unsubscribe(l) ==
    /\ l \in handles
    /\ listeners' = SetDelete(listeners, l)
    /\ lastOp' = OpRecord("unsubscribe", l, [ServiceAtCall EXCEPT !.ret = "void"])
    /\ UNCHANGED <<now, isOfflineMode, rateLimitedUntil, maxRetries, initialBackoffMs,
                   cache, pc, args, retries, lastError, backoffTime, outcome,
                   dispatches, lookups, answers, evicted, putLog, ticks, fnIn, fnOut,
                   handles, pacerVars, collaboratorVars, metadataVars, cancelRequested>>

InitObservers ==
    /\ listeners = <<>>
    /\ handles = {}
    /\ lastOp = NoOp

-----------------------------------------------------------------------------
(* RateLimitHandler.  Calls are numbered in the order they are enqueued.   *)

NoCurrent == [id |-> 0, retryCount |-> 0, phase |-> "none", due |-> 0]

NoAnswer == [id |-> 0, retryCount |-> 0, ok |-> TRUE, hasResponse |-> FALSE,
             status |-> 0]

\* parseInt(headerValue, 10) of the Retry-After values used; -1 is NaN
ParseInt(h) ==
    CASE h = "0" -> 0
      [] h = "1" -> 1
      [] OTHER -> -1

\* lines 146-159; a is the 429 answer, h its Retry-After header ("" if none)
RetryDelay(a, retryCount) ==
    IF a.retryAfter # ""
    THEN IF ParseInt(a.retryAfter) # -1
         THEN ParseInt(a.retryAfter) * 1000
         ELSE baseRetryDelay
    ELSE IF useExponentialBackoff
         THEN baseRetryDelay * Pow2(retryCount)
         ELSE baseRetryDelay

\* processQueue() without its isProcessing guard
ProcessQueue_NoGuard(q) ==
    IF q = <<>>
    THEN /\ queue' = q
    ELSE /\ isProcessing' = TRUE
         /\ queue' = Tail(q)
         /\ current' = [id |-> Head(q), retryCount |-> 0, phase |-> "inflight",
                        due |-> 0]
         /\ dispatchLog' = Append(dispatchLog, Head(q))

ProcessQueue_TakeLast(q) ==
    IF isProcessing \/ q = <<>>
    THEN /\ queue' = q
         /\ UNCHANGED <<isProcessing, current, dispatchLog>>
    ELSE /\ isProcessing' = TRUE
         /\ queue' = SubSeq(q, 1, Len(q) - 1)
         /\ current' = [id |-> q[Len(q)], retryCount |-> 0, phase |-> "inflight",
                        due |-> 0]
         /\ dispatchLog' = Append(dispatchLog, q[Len(q)])

\* processQueue() on the queue q, up to its await: take the head and
\* dispatch it, unless a call is being processed or nothing waits
ProcessQueue(q) ==
    IF isProcessing \/ q = <<>>
    THEN /\ queue' = q
         /\ UNCHANGED <<isProcessing, current, dispatchLog>>
    ELSE /\ isProcessing' = TRUE
         /\ queue' = Tail(q)
         /\ current' = [id |-> Head(q), retryCount |-> 0, phase |-> "inflight",
                        due |-> 0]
         /\ dispatchLog' = Append(dispatchLog, Head(q))

\* request()/post(): enqueue pushes the call and runs processQueue()
Enqueue ==
    /\ submitted < MaxCalls
    /\ submitted' = submitted + 1
    /\ ProcessQueue(Append(queue, submitted + 1))
    /\ UNCHANGED <<timers, settleLog, lastSettledAt, answered>>
    /\ UNCHANGED <<now, isOfflineMode, rateLimitedUntil, maxRetries, initialBackoffMs,
                   cache, pc, args, retries, lastError, backoffTime, outcome,
                   dispatches, lookups, answers, evicted, putLog, ticks, fnIn, fnOut,
                   observerVars, collaboratorVars, metadataVars, cancelRequested>>

\* processQueue's finally block without its setTimeout
Answer_NoTimer(a) ==
    /\ current.phase = "inflight"
    /\ IF ~a.ok /\ a.hasResponse /\ a.status = 429
          /\ current.retryCount < pacerMaxRetries
       THEN /\ current' = [current EXCEPT !.phase = "waiting",
                              !.due = now + RetryDelay(a, current.retryCount)]
            /\ UNCHANGED <<isProcessing, timers, settleLog, lastSettledAt>>
       ELSE /\ settleLog' = Append(settleLog,
                   [id |-> current.id,
                    how |-> IF a.ok THEN "resolved" ELSE "rejected"])
            /\ lastSettledAt' = now
            /\ isProcessing' = FALSE
            /\ current' = NoCurrent
            /\ timers' = timers
    /\ UNCHANGED <<queue, submitted, dispatchLog, answered>>
    /\ UNCHANGED <<now, isOfflineMode, rateLimitedUntil, maxRetries, initialBackoffMs,
                   cache, pc, args, retries, lastError, backoffTime, outcome,
                   dispatches, lookups, answers, evicted, putLog, ticks, fnIn, fnOut,
                   observerVars, collaboratorVars, metadataVars, cancelRequested>>

\* executeWithRetry with every failed answer retried
executeWithRetry_RetryAnyFailure(a) ==
    /\ current.phase = "inflight"
    /\ IF ~a.ok /\ current.retryCount < pacerMaxRetries
       THEN /\ current' = [current EXCEPT !.phase = "waiting",
                              !.due = now + RetryDelay(a, current.retryCount)]
            /\ UNCHANGED <<isProcessing, timers, settleLog, lastSettledAt>>
       ELSE /\ settleLog' = Append(settleLog,
                   [id |-> current.id,
                    how |-> IF a.ok THEN "resolved" ELSE "rejected"])
            /\ lastSettledAt' = now
            /\ isProcessing' = FALSE
            /\ current' = NoCurrent
            /\ timers' = Append(timers, now + delayBetweenRequests)
    /\ UNCHANGED <<queue, submitted, dispatchLog>>

\* executeWithRetry and processQueue from the answer a of the dispatch to
\* the retry wait, or to the settling of the call's promise and the
\* finally block (lines 108-120, 134-174)
executeWithRetry(a) ==
    /\ current.phase = "inflight"
    /\ IF ~a.ok /\ a.hasResponse /\ a.status = 429
          /\ current.retryCount < pacerMaxRetries
       THEN /\ current' = [current EXCEPT !.phase = "waiting",
                              !.due = now + RetryDelay(a, current.retryCount)]
            /\ UNCHANGED <<isProcessing, timers, settleLog, lastSettledAt>>
       ELSE /\ settleLog' = Append(settleLog,
                   [id |-> current.id,
                    how |-> IF a.ok THEN "resolved" ELSE "rejected"])
            /\ lastSettledAt' = now
            /\ isProcessing' = FALSE
            /\ current' = NoCurrent
            /\ timers' = Append(timers, now + delayBetweenRequests)
    /\ UNCHANGED <<queue, submitted, dispatchLog>>

\* the dispatched requestFn() settles with the answer a
Answer(a) ==
    /\ executeWithRetry(a)
    /\ UNCHANGED answered
    /\ UNCHANGED <<now, isOfflineMode, rateLimitedUntil, maxRetries, initialBackoffMs,
                   cache, pc, args, retries, lastError, backoffTime, outcome,
                   dispatches, lookups, answers, evicted, putLog, ticks, fnIn, fnOut,
                   observerVars, collaboratorVars, metadataVars, cancelRequested>>

\* the same, with the answer kept for the record
AnswerObserved(a) ==
    /\ executeWithRetry(a)
    /\ answered' = [id |-> current.id, retryCount |-> current.retryCount,
                     ok |-> a.ok, hasResponse |-> a.hasResponse, status |-> a.status]
    /\ UNCHANGED <<now, isOfflineMode, rateLimitedUntil, maxRetries, initialBackoffMs,
                   cache, pc, args, retries, lastError, backoffTime, outcome,
                   dispatches, lookups, answers, evicted, putLog, ticks, fnIn, fnOut,
                   observerVars, collaboratorVars, metadataVars, cancelRequested>>

\* the retry wait is over: executeWithRetry(requestFn, retryCount + 1)
Retry ==
    /\ current.phase = "waiting"
    /\ now >= current.due
    /\ current' = [current EXCEPT !.phase = "inflight", !.due = 0,
                                  !.retryCount = @ + 1]
    /\ dispatchLog' = Append(dispatchLog, current.id)
    /\ UNCHANGED <<queue, isProcessing, timers, submitted, settleLog, lastSettledAt,
                   answered>>
    /\ UNCHANGED <<now, isOfflineMode, rateLimitedUntil, maxRetries, initialBackoffMs,
                   cache, pc, args, retries, lastError, backoffTime, outcome,
                   dispatches, lookups, answers, evicted, putLog, ticks, fnIn, fnOut,
                   observerVars, collaboratorVars, metadataVars, cancelRequested>>

\* the oldest setTimeout(() => this.processQueue(), delayBetweenRequests)
\* fires
TimerFires ==
    /\ timers # <<>>
    /\ now >= Head(timers)
    /\ timers' = Tail(timers)
    /\ ProcessQueue(queue)
    /\ UNCHANGED <<submitted, settleLog, lastSettledAt, answered>>
    /\ UNCHANGED <<now, isOfflineMode, rateLimitedUntil, maxRetries, initialBackoffMs,
                   cache, pc, args, retries, lastError, backoffTime, outcome,
                   dispatches, lookups, answers, evicted, putLog, ticks, fnIn, fnOut,
                   observerVars, collaboratorVars, metadataVars, cancelRequested>>

clearQueue_KeepQueue ==
    /\ settleLog' = settleLog \o
           [i \in 1..Len(queue) |-> [id |-> queue[i], how |-> "cleared"]]
    /\ UNCHANGED <<queue, isProcessing, current, timers, submitted, dispatchLog,
                   lastSettledAt, answered>>
    /\ UNCHANGED <<now, isOfflineMode, rateLimitedUntil, maxRetries, initialBackoffMs,
                   cache, pc, args, retries, lastError, backoffTime, outcome,
                   dispatches, lookups, answers, evicted, putLog, ticks, fnIn, fnOut,
                   observerVars, collaboratorVars, metadataVars, cancelRequested>>

\* clearQueue(): reject every waiting call, empty the queue
clearQueue ==
    /\ settleLog' = settleLog \o
           [i \in 1..Len(queue) |-> [id |-> queue[i], how |-> "cleared"]]
    /\ queue' = <<>>
    /\ UNCHANGED <<isProcessing, current, timers, submitted, dispatchLog,
                   lastSettledAt, answered>>
    /\ UNCHANGED <<now, isOfflineMode, rateLimitedUntil, maxRetries, initialBackoffMs,
                   cache, pc, args, retries, lastError, backoffTime, outcome,
                   dispatches, lookups, answers, evicted, putLog, ticks, fnIn, fnOut,
                   observerVars, collaboratorVars, metadataVars, cancelRequested>>

\* RateLimitHandler after construction
InitPacer ==
    /\ queue = <<>>
    /\ isProcessing = FALSE
    /\ current = NoCurrent
    /\ timers = <<>>
    /\ submitted = 0
    /\ dispatchLog = <<>>
    /\ settleLog = <<>>
    /\ lastSettledAt = Null
    /\ answered = NoAnswer

-----------------------------------------------------------------------------
(* recommendations.ts and the toggle command of extension-previous.ts.      *)
(* Both import the offline-mode service from "./ai/offlineMode", while      *)
(* client.ts imports it from "../test/services/offlineMode": each module    *)
(* constructs its own OfflineModeService, so the collaborators and the      *)
(* command act on one instance (aiIsOfflineMode) and the client reads       *)
(* another (isOfflineMode, rateLimitedUntil).  Nothing calls                *)
(* setRateLimited on the former (client.ts:119-129 is commented out), so    *)
(* its _rateLimitedUntil stays null.                                         *)

Jobs == {"generateRecommendations", "generateMigrationCode"}

NoJob == [fn |-> "none", at |-> "idle"]

Selections == {"Configure Now", "Use Offline Mode", "Don't Ask Again", "undefined"}

\* shouldUseOfflineMode() of ./ai/offlineMode: _isOfflineMode || isRateLimited()
aiShouldUseOfflineMode == aiIsOfflineMode

\* toggleOfflineMode(force) of ./ai/offlineMode, never rate-limited
aiToggled(force) ==
    IF force = "undefined" THEN ~aiIsOfflineMode ELSE force = "true"

JobEnds(p, fn, result) ==
    /\ job' = [job EXCEPT ![p] = [fn |-> fn, at |-> "done"]]
    /\ jobResult' = [jobResult EXCEPT ![p] = result]

JobAwaits(p, fn, at) ==
    /\ job' = [job EXCEPT ![p] = [fn |-> fn, at |-> at]]
    /\ jobResult' = [jobResult EXCEPT ![p] = "none"]

ClientUntouched ==
    UNCHANGED <<now, isOfflineMode, rateLimitedUntil, maxRetries, initialBackoffMs,
                cache, pc, args, retries, lastError, backoffTime, outcome,
                dispatches, lookups, answers, evicted, putLog, ticks, fnIn, fnOut,
                observerVars, pacerVars, metadataVars, cancelRequested>>

\* recommendations.ts:30-102 up to the first await: hasClient is whether
\* getOpenAIClient() returns a client, suppressPrompt the setting read at l.59
generateRecommendations_NoOfflineCheck(p, a, hasClient, suppressPrompt) ==
    /\ job[p].at \in {"idle", "done"}
    /\ pc[p] \in {"idle", "done"}
    /\ UNCHANGED aiIsOfflineMode
    /\ IF hasClient
       THEN /\ request(p, a)
            /\ JobAwaits(p, "generateRecommendations", "client")
       ELSE /\ ClientUntouched
            /\ IF suppressPrompt
               THEN JobEnds(p, "generateRecommendations", "basic")
               ELSE JobAwaits(p, "generateRecommendations", "prompt")

generateRecommendations(p, a, hasClient, suppressPrompt) ==
    /\ job[p].at \in {"idle", "done"}
    /\ pc[p] \in {"idle", "done"}
    /\ UNCHANGED aiIsOfflineMode
    /\ IF aiShouldUseOfflineMode
       THEN /\ ClientUntouched
            /\ JobEnds(p, "generateRecommendations", "basic")
       ELSE IF hasClient
            THEN /\ request(p, a)
                 /\ JobAwaits(p, "generateRecommendations", "client")
            ELSE /\ ClientUntouched
                 /\ IF suppressPrompt
                    THEN JobEnds(p, "generateRecommendations", "basic")
                    ELSE JobAwaits(p, "generateRecommendations", "prompt")

\* recommendations.ts:68-92: the answer to showInformationMessage; updateFails
\* is whether the settings update of l.84-90 rejects (caught at l.97-101)
Select(p, selection, updateFails) ==
    /\ job[p] = [fn |-> "generateRecommendations", at |-> "prompt"]
    /\ aiIsOfflineMode' = IF selection = "Use Offline Mode"
                          THEN aiToggled("true")
                          ELSE aiIsOfflineMode
    /\ JobEnds(p, "generateRecommendations",
               IF selection = "Don't Ask Again" /\ updateFails
               THEN "empty" ELSE "basic")
    /\ ClientUntouched

\* what generateAIRecommendations makes of the response (l.151-168): JSON
\* found and parsed, else the catch of l.165-168
ParsedRecommendations(body) ==
    IF body = "json" THEN "ai" ELSE "basic"

\* recommendations.ts:274-277  content || generateFallbackMigrationCode(...)
MigrationContent(body) ==
    IF Truthy(body) THEN "ai" ELSE "fallback"

\* the continuation of generateRecommendations after client.request settles
\* (l.44-56, then l.96)
RecommendationsSettle_Rethrow(p) ==
    /\ job[p] = [fn |-> "generateRecommendations", at |-> "client"]
    /\ pc[p] = "done"
    /\ JobEnds(p, "generateRecommendations",
               IF outcome[p].kind = "returned"
               THEN ParsedRecommendations(outcome[p].value)
               ELSE "rejected")
    /\ UNCHANGED aiIsOfflineMode
    /\ ClientUntouched

RecommendationsSettle(p) ==
    /\ job[p] = [fn |-> "generateRecommendations", at |-> "client"]
    /\ pc[p] = "done"
    /\ JobEnds(p, "generateRecommendations",
               IF outcome[p].kind = "returned"
               THEN ParsedRecommendations(outcome[p].value)
               ELSE "basic")
    /\ UNCHANGED aiIsOfflineMode
    /\ ClientUntouched

\* recommendations.ts:230-285 up to the await of client.request
generateMigrationCode(p, a, hasClient) ==
    /\ job[p].at \in {"idle", "done"}
    /\ pc[p] \in {"idle", "done"}
    /\ UNCHANGED aiIsOfflineMode
    /\ IF aiShouldUseOfflineMode \/ ~hasClient
       THEN /\ ClientUntouched
            /\ JobEnds(p, "generateMigrationCode", "fallback")
       ELSE /\ request(p, a)
            /\ JobAwaits(p, "generateMigrationCode", "client")

\* the continuation of generateMigrationCode (l.274-281)
MigrationSettle(p) ==
    /\ job[p] = [fn |-> "generateMigrationCode", at |-> "client"]
    /\ pc[p] = "done"
    /\ JobEnds(p, "generateMigrationCode",
               IF outcome[p].kind = "returned"
               THEN MigrationContent(outcome[p].value)
               ELSE "fallback")
    /\ UNCHANGED aiIsOfflineMode
    /\ ClientUntouched

\* extension-previous.ts:367-389: the toggleOfflineMode command calls
\* toggleOfflineMode() of ./ai/offlineMode
ToggleCommand ==
    /\ aiIsOfflineMode' = aiToggled("undefined")
    /\ UNCHANGED <<job, jobResult>>
    /\ ClientUntouched

InitCollaborators ==
    /\ aiIsOfflineMode = FALSE
    /\ job = [p \in Procs |-> NoJob]
    /\ jobResult = [p \in Procs |-> "none"]

-----------------------------------------------------------------------------
(* fetchNpmMetadata (src/unnamed/part_002, and the same fetch loop in       *)
(* part_003): Promise.all over packageNames.map, every name's lookups made  *)
(* with axios.get directly                                                  *)

PackageNames == {"lodash", "moment"}

\* how many fetchNpmMetadata calls a behaviour makes
MaxFetches == 2

NoData == [n \in PackageNames |-> "none"]

Lookup(call, name, url) == [call |-> call, name |-> name, url |-> url]

\* the elements of a sequence
Range(s) == {s[i] : i \in 1..Len(s)}

\* part_002:33-46: the call runs every map callback up to its first await,
\* which dispatches one registry lookup per name at once
fetchNpmMetadata(packageNames) ==
    LET call == Len(fetchCalls) + 1
    IN  /\ Len(fetchCalls) < MaxFetches
        /\ fetchCalls' = Append(fetchCalls, [names |-> packageNames, data |-> NoData])
        /\ registryInFlight' = registryInFlight \cup
               {Lookup(call, n, "registry") : n \in Range(packageNames)}
        /\ lastLookupAt' = IF packageNames = <<>> THEN lastLookupAt ELSE now
        /\ UNCHANGED fetchedAt
        /\ UNCHANGED <<now, isOfflineMode, rateLimitedUntil, maxRetries,
                       initialBackoffMs, cache, pc, args, retries, lastError,
                       backoffTime, outcome, dispatches, lookups, answers,
                       evicted, putLog, ticks, fnIn, fnOut,
                       observerVars, pacerVars, collaboratorVars, cancelRequested>>

\* part_002:42-72, 85-111: the registry answers lookup l.  axios rejects on a
\* status outside 2xx; a 2xx other than 200 stores
\* nothing; a 200 stores the info and dispatches the downloads lookup
RegistryAnswers(l, status) ==
    /\ l \in registryInFlight
    /\ l.url = "registry"
    /\ fetchCalls' = [fetchCalls EXCEPT ![l.call].data[l.name] =
                         CASE status = 200 -> "info"
                           [] status \in 201..299 -> "none"
                           [] OTHER -> "error"]
    /\ registryInFlight' = (registryInFlight \ {l}) \cup
           (IF status = 200 THEN {Lookup(l.call, l.name, "downloads")} ELSE {})
    /\ fetchedAt' = IF status = 200 THEN [fetchedAt EXCEPT ![l.name] = now]
                    ELSE fetchedAt
    /\ lastLookupAt' = IF status = 200 THEN now ELSE lastLookupAt
    /\ UNCHANGED <<now, isOfflineMode, rateLimitedUntil, maxRetries,
                   initialBackoffMs, cache, pc, args, retries, lastError,
                   backoffTime, outcome, dispatches, lookups, answers,
                   evicted, putLog, ticks, fnIn, fnOut,
                   observerVars, pacerVars, collaboratorVars, cancelRequested>>

\* part_002:73-84: the downloads endpoint answers; a failure is only logged
DownloadsAnswers(l, status) ==
    /\ l \in registryInFlight
    /\ l.url = "downloads"
    /\ fetchCalls' = [fetchCalls EXCEPT ![l.call].data[l.name] =
                         IF status = 200 THEN "info+downloads" ELSE @]
    /\ registryInFlight' = registryInFlight \ {l}
    /\ UNCHANGED <<fetchedAt, lastLookupAt>>
    /\ UNCHANGED <<now, isOfflineMode, rateLimitedUntil, maxRetries,
                   initialBackoffMs, cache, pc, args, retries, lastError,
                   backoffTime, outcome, dispatches, lookups, answers,
                   evicted, putLog, ticks, fnIn, fnOut,
                   observerVars, pacerVars, collaboratorVars, cancelRequested>>

InitMetadata ==
    /\ fetchCalls = <<>>
    /\ registryInFlight = {}
    /\ fetchedAt = [n \in PackageNames |-> Null]
    /\ lastLookupAt = Null

-----------------------------------------------------------------------------
(* The clock *)

Tick(d) ==
    /\ ticks < MaxTicks
    /\ now' = now + d
    /\ ticks' = ticks + 1
    /\ UNCHANGED <<isOfflineMode, rateLimitedUntil, maxRetries, initialBackoffMs,
                   cache, pc, args, retries, lastError, backoffTime, outcome,
                   dispatches, lookups, answers, evicted, putLog, fnIn, fnOut,
                   observerVars, pacerVars, collaboratorVars, metadataVars, cancelRequested>>

\* the due times of the handler's pending setTimeout calls: the spacing
\* timers of processQueue and the retry wait of executeWithRetry
PendingDues ==
    {timers[i] : i \in 1..Len(timers)}
        \cup (IF current.phase = "waiting" THEN {current.due} ELSE {})

\* time passes up to the next due time of a pending timer
TimePasses ==
    /\ \E d \in PendingDues : d > now
    /\ now' = CHOOSE d \in PendingDues :
                  d > now /\ \A e \in PendingDues : e > now => d <= e
    /\ UNCHANGED <<isOfflineMode, rateLimitedUntil, maxRetries, initialBackoffMs,
                   cache, pc, args, retries, lastError, backoffTime, outcome,
                   dispatches, lookups, answers, evicted, putLog, ticks, fnIn, fnOut,
                   observerVars, pacerVars, collaboratorVars, metadataVars, cancelRequested>>

-----------------------------------------------------------------------------
(* Inputs shared by the specifications *)

\* "", "0" and "false" stand for the falsy JavaScript bodies '', 0 and false
OkResponse(b) == [ok |-> TRUE, hasResponse |-> TRUE, status |-> 200, body |-> b]

NetworkError == [ok |-> FALSE, hasResponse |-> FALSE, status |-> 0, body |-> "null"]

ErrorResponse(s) == [ok |-> FALSE, hasResponse |-> TRUE, status |-> s, body |-> "null"]

Forces == {"undefined", "true", "false"}

TickSteps == {cacheTTLMs \div 2}

NoFn == [f |-> "none"]

InitCalls ==
    /\ pc = [p \in Procs |-> "idle"]
    /\ cancelRequested = [p \in Procs |-> FALSE]
    /\ args = [p \in Procs |-> NoArgs]
    /\ retries = [p \in Procs |-> 0]
    /\ lastError = [p \in Procs |-> NoError]
    /\ backoffTime = [p \in Procs |-> 0]
    /\ outcome = [p \in Procs |-> NoOutcome]
    /\ dispatches = [p \in Procs |-> 0]
    /\ lookups = [p \in Procs |-> 0]
    /\ answers = [p \in Procs |-> <<>>]

InitService ==
    /\ now = 0
    /\ ticks = 0
    /\ isOfflineMode = FALSE
    /\ rateLimitedUntil = Null

-----------------------------------------------------------------------------
(* Spec: one caller of request() with every transport answer, the          *)
(* operator's toggle and clearCache                                        *)

Callers == {1}

CallArgs ==
    [method : {"GET", "POST"}, url : {"/pkg"}, data : {""}, cacheKey : {""},
     cacheTTL : {0}, forceRefresh : BOOLEAN]

Responses ==
    {OkResponse(b) : b \in {"pkg", ""}}
    \cup {NetworkError}
    \cup {ErrorResponse(s) : s \in {401, 429, 503}}

Jitters == {JitterMin, 100, JitterMax}

Init ==
    /\ InitService
    /\ maxRetries \in 0..MaxMaxRetries
    /\ initialBackoffMs = 1000
    /\ cache = <<>>
    /\ evicted = NoEviction
    /\ putLog = <<>>
    /\ InitCalls
    /\ InitObservers
    /\ InitPacer
    /\ InitCollaborators
    /\ InitMetadata
    /\ fnIn = NoFn
    /\ fnOut = NoFn

Next ==
    \/ \E p \in Callers, a \in CallArgs : Call(p, a)
    \/ \E p \in Callers, r \in Responses, j \in Jitters : Respond(p, r, j)
    \/ \E p \in Callers : Wake(p)
    \/ clearCache
    \/ \E f \in Forces : toggleOfflineMode(f)
    \/ \E d \in TickSteps : Tick(d)

Spec == Init /\ [][Next]_vars

-----------------------------------------------------------------------------
(* SpecCache: one caller with every cache option, a transport that answers *)
(* with any body or a 503, no retries                                      *)

CacheCallArgs ==
    [method : {"GET", "POST"}, url : {"/pkg"}, data : {""}, cacheKey : {"", "k"},
     cacheTTL : {0, cacheTTLMs \div 2}, forceRefresh : BOOLEAN]

CacheBodies == {"pkg", "", "0", "false"}

CacheResponses ==
    {OkResponse(b) : b \in CacheBodies} \cup {ErrorResponse(503)}

InitCache ==
    /\ InitService
    /\ maxRetries = 0
    /\ initialBackoffMs = 1000
    /\ cache = <<>>
    /\ evicted = NoEviction
    /\ putLog = <<>>
    /\ InitCalls
    /\ InitObservers
    /\ InitPacer
    /\ InitCollaborators
    /\ InitMetadata
    /\ fnIn = NoFn
    /\ fnOut = NoFn

NextCache ==
    \/ \E p \in Callers, a \in CacheCallArgs : Call(p, a)
    \/ \E p \in Callers, r \in CacheResponses : Respond(p, r, 100)
    \/ clearCache
    \/ \E d \in TickSteps : Tick(d)

SpecCache == InitCache /\ [][NextCache]_vars

-----------------------------------------------------------------------------
(* SpecCompletion: the completion requests of recommendations.ts, one      *)
(* caller repeating them while the clock advances by hours                 *)

\* recommendations.ts:148  24 * 60 * 60 * 1000
RecommendationsTTL == 86400000

\* recommendations.ts:270  7 * 24 * 60 * 60 * 1000
MigrationTTL == 604800000

\* the two client.request("post", "/chat/completions", ...) calls
CompletionArgs ==
    {[method |-> "post", url |-> "/chat/completions", data |-> "recommend",
      cacheKey |-> "recommendations:[]", cacheTTL |-> RecommendationsTTL,
      forceRefresh |-> FALSE],
     [method |-> "post", url |-> "/chat/completions", data |-> "migrate",
      cacheKey |-> "migration:lodash", cacheTTL |-> MigrationTTL,
      forceRefresh |-> FALSE]}

CompletionResponses ==
    {OkResponse(b) : b \in {"choices-1", "choices-2"}}
    \cup {ErrorResponse(s) : s \in {429, 503}}

CompletionTickSteps == {cacheTTLMs}

NextCompletion ==
    \/ \E p \in Callers, a \in CompletionArgs : Call(p, a)
    \/ \E p \in Callers, r \in CompletionResponses, j \in Jitters : Respond(p, r, j)
    \/ \E p \in Callers : Wake(p)
    \/ \E d \in CompletionTickSteps : Tick(d)

SpecCompletion == Init /\ [][NextCompletion]_vars

-----------------------------------------------------------------------------
(* Pure functions of the retry policy, applied to drawn inputs *)

ApplyShouldRetry ==
    /\ fnIn.f = "shouldRetry"
    /\ fnOut.f = "none"
    /\ fnOut' = [f |-> "shouldRetry",
                 result |-> shouldRetry(AxiosError(fnIn.hasResponse, fnIn.status),
                                        fnIn.n, maxRetries)]
    /\ UNCHANGED <<now, isOfflineMode, rateLimitedUntil, maxRetries, initialBackoffMs,
                   cache, pc, args, retries, lastError, backoffTime, outcome,
                   dispatches, lookups, answers, evicted, putLog, ticks, fnIn,
                   observerVars, pacerVars, collaboratorVars, metadataVars, cancelRequested>>

ApplyCalculateBackoff ==
    /\ fnIn.f = "calculateBackoff"
    /\ fnOut.f = "none"
    /\ fnOut' = [f |-> "calculateBackoff",
                 result |-> calculateBackoff(initialBackoffMs, fnIn.n, fnIn.jitter)]
    /\ UNCHANGED <<now, isOfflineMode, rateLimitedUntil, maxRetries, initialBackoffMs,
                   cache, pc, args, retries, lastError, backoffTime, outcome,
                   dispatches, lookups, answers, evicted, putLog, ticks, fnIn,
                   observerVars, pacerVars, collaboratorVars, metadataVars, cancelRequested>>

Statuses == {301, 400, 401, 403, 404, 429, 430, 499, 500, 502, 503, 599, 600}

ShouldRetryInputs ==
    [f : {"shouldRetry"}, hasResponse : {TRUE}, status : Statuses,
     n : 0..(MaxMaxRetries + 1), jitter : {100}]
    \cup [f : {"shouldRetry"}, hasResponse : {FALSE}, status : {0},
          n : 0..(MaxMaxRetries + 1), jitter : {100}]

BackoffInputs ==
    [f : {"calculateBackoff"}, hasResponse : {FALSE}, status : {0},
     n : 0..MaxExponent, jitter : JitterMin..JitterMax]

BackoffBases == {0, 1, 1000, 16000, 40000}

InitPolicy ==
    /\ InitService
    /\ maxRetries \in 0..MaxMaxRetries
    /\ initialBackoffMs \in BackoffBases
    /\ cache = <<>>
    /\ evicted = NoEviction
    /\ putLog = <<>>
    /\ InitCalls
    /\ InitObservers
    /\ InitPacer
    /\ InitCollaborators
    /\ InitMetadata
    /\ fnIn \in ShouldRetryInputs \cup BackoffInputs
    /\ fnOut = NoFn

NextPolicy ==
    \/ ApplyShouldRetry
    \/ ApplyCalculateBackoff

SpecPolicy == InitPolicy /\ [][NextPolicy]_vars

-----------------------------------------------------------------------------
(* SpecEvict: the cache at or just below its capacity, after 99 or 100     *)
(* successful GETs of distinct urls, then more GETs                        *)

\* the url of the i-th package
UrlOf(i) == ToString(i)

PrefillPatterns == 1..4

\* when the i-th url was last fetched, by the time now = 4 * MaxCacheSize:
\* 1: all in the same millisecond as now; 2: one per millisecond;
\* 3: one per millisecond, then the first half fetched again (forceRefresh);
\* 4: seven per millisecond
PrefillTimestamp(pattern, i) ==
    CASE pattern = 1 -> 4 * MaxCacheSize
      [] pattern = 2 -> i
      [] pattern = 3 -> IF 2 * i <= MaxCacheSize THEN MaxCacheSize + i ELSE i
      [] OTHER -> i \div 7

PrefillKey(i) == <<"GET", UrlOf(i), "{}">>

Prefilled(n, pattern) ==
    [i \in 1..n |-> [key |-> PrefillKey(i),
                     timestamp |-> PrefillTimestamp(pattern, i),
                     data |-> "pkg"]]

PrefilledLog(n, pattern) ==
    LET c == Prefilled(n, pattern)
    IN  [k \in {PrefillKey(i) : i \in 1..n} |->
            [at |-> c[CacheIndex(c, k)].timestamp, value |-> "pkg", live |-> TRUE]]

EvictCallArgs ==
    [method : {"GET"},
     url : {UrlOf(1), UrlOf(60), UrlOf(MaxCacheSize + 1), UrlOf(MaxCacheSize + 2)},
     data : {""}, cacheKey : {""}, cacheTTL : {0}, forceRefresh : {TRUE}]

InitEvict ==
    /\ now = 4 * MaxCacheSize
    /\ ticks = 0
    /\ isOfflineMode = FALSE
    /\ rateLimitedUntil = Null
    /\ maxRetries = 0
    /\ initialBackoffMs = 1000
    /\ \E n \in {MaxCacheSize - 1, MaxCacheSize}, pattern \in PrefillPatterns :
          /\ cache = Prefilled(n, pattern)
          /\ putLog = PrefilledLog(n, pattern)
          /\ evicted = [before |-> Prefilled(n, pattern), removed |-> <<>>]
    /\ InitCalls
    /\ InitObservers
    /\ InitPacer
    /\ InitCollaborators
    /\ InitMetadata
    /\ fnIn = NoFn
    /\ fnOut = NoFn

NextEvict ==
    \/ \E p \in Callers, a \in EvictCallArgs : Call(p, a)
    \/ \E p \in Callers : Respond(p, OkResponse("pkg"), 100)

SpecEvict == InitEvict /\ [][NextEvict]_vars

-----------------------------------------------------------------------------
(* SpecService: the OfflineModeService of offlineMode-previous.ts with its *)
(* listeners, its callers and the clock                                    *)

\* limitedForSeconds: the default and half of it
Durations == {30, 60}

ServiceTickSteps == {30000, 60000}

InitServiceSpec ==
    /\ InitService
    /\ maxRetries = 0
    /\ initialBackoffMs = 1000
    /\ cache = <<>>
    /\ evicted = NoEviction
    /\ putLog = <<>>
    /\ InitCalls
    /\ InitObservers
    /\ InitPacer
    /\ InitCollaborators
    /\ InitMetadata
    /\ fnIn = NoFn
    /\ fnOut = NoFn

NextService ==
    \/ \E f \in Forces : toggleOfflineMode(f)
    \/ \E d \in Durations : setRateLimited(d)
    \/ \E l \in Listeners : addListener(l)
    \/ \E l \in Listeners : Unsubscribe(l)
    \/ \E d \in ServiceTickSteps : Tick(d)

SpecService == InitServiceSpec /\ [][NextService]_vars

-----------------------------------------------------------------------------
(* SpecStateRead: the service's queries next to its two mutators, the clock *)
(* passing the deadlines                                                    *)

NextStateRead ==
    \/ \E f \in Forces : toggleOfflineMode(f)
    \/ \E d \in Durations : setRateLimited(d)
    \/ getState
    \/ isRateLimited
    \/ shouldUseOfflineMode
    \/ \E d \in ServiceTickSteps : Tick(d)

SpecStateRead == InitServiceSpec /\ [][NextStateRead]_vars

-----------------------------------------------------------------------------
(* SpecPacer: one RateLimitHandler (the npm one), its callers, the answers *)
(* of the registry, the timers and the clock                               *)

\* the answers of axios: 200, 429 with and without Retry-After, 500, none
PacerAnswers ==
    {[ok |-> TRUE, hasResponse |-> TRUE, status |-> 200, retryAfter |-> ""],
     [ok |-> FALSE, hasResponse |-> TRUE, status |-> 429, retryAfter |-> ""],
     [ok |-> FALSE, hasResponse |-> TRUE, status |-> 429, retryAfter |-> "0"],
     [ok |-> FALSE, hasResponse |-> TRUE, status |-> 429, retryAfter |-> "soon"],
     [ok |-> FALSE, hasResponse |-> TRUE, status |-> 500, retryAfter |-> ""],
     [ok |-> FALSE, hasResponse |-> FALSE, status |-> 0, retryAfter |-> ""]}

PacerTickSteps == {delayBetweenRequests \div 2}

NextPacer ==
    \/ Enqueue
    \/ \E a \in PacerAnswers : Answer(a)
    \/ Retry
    \/ TimerFires
    \/ clearQueue
    \/ \E d \in PacerTickSteps : Tick(d)

SpecPacer == InitServiceSpec /\ [][NextPacer]_vars

-----------------------------------------------------------------------------
(* SpecConcurrent: two callers of request() on the one ApiClient, their    *)
(* calls overlapping at the awaits, with the operator's toggle and         *)
(* clearCache in between                                                   *)

ConcurrentCallArgs ==
    [method : {"GET"}, url : {"/pkg"}, data : {""}, cacheKey : {""},
     cacheTTL : {0}, forceRefresh : BOOLEAN]

ConcurrentResponses ==
    {OkResponse(b) : b \in {"v1", "v2"}} \cup {ErrorResponse(503)}

InitConcurrent ==
    /\ InitService
    /\ maxRetries = 1
    /\ initialBackoffMs = 1000
    /\ cache = <<>>
    /\ evicted = NoEviction
    /\ putLog = <<>>
    /\ InitCalls
    /\ InitObservers
    /\ InitPacer
    /\ InitCollaborators
    /\ InitMetadata
    /\ fnIn = NoFn
    /\ fnOut = NoFn

NextConcurrent ==
    \/ \E p \in Procs, a \in ConcurrentCallArgs : Call(p, a)
    \/ \E p \in Procs, r \in ConcurrentResponses : Respond(p, r, 100)
    \/ \E p \in Procs : Wake(p)
    \/ \E p \in Procs : Cancel(p)
    \/ clearCache
    \/ \E f \in Forces : toggleOfflineMode(f)
    \/ \E d \in TickSteps : Tick(d)

SpecConcurrent == InitConcurrent /\ [][NextConcurrent]_vars

-----------------------------------------------------------------------------
(* SpecCollaborators: recommendations.ts over the client, the toggle        *)
(* command, and another consumer calling the client directly                *)

CollaboratorResponses ==
    {OkResponse(b) : b \in {"json", "text", ""}}
    \cup {ErrorResponse(s) : s \in {429, 503}}

RecommendationsArgs ==
    [method |-> "post", url |-> "/chat/completions", data |-> "recommend",
     cacheKey |-> "recommendations:[]", cacheTTL |-> RecommendationsTTL,
     forceRefresh |-> FALSE]

MigrationArgs ==
    [method |-> "post", url |-> "/chat/completions", data |-> "migrate",
     cacheKey |-> "migration:lodash", cacheTTL |-> MigrationTTL,
     forceRefresh |-> FALSE]

NextCollaborators ==
    \/ \E p \in Callers, hasClient \in BOOLEAN, suppressPrompt \in BOOLEAN :
          generateRecommendations(p, RecommendationsArgs, hasClient, suppressPrompt)
    \/ \E p \in Callers, s \in Selections, updateFails \in BOOLEAN :
          Select(p, s, updateFails)
    \/ \E p \in Callers : RecommendationsSettle(p)
    \/ \E p \in Callers, hasClient \in BOOLEAN :
          generateMigrationCode(p, MigrationArgs, hasClient)
    \/ \E p \in Callers : MigrationSettle(p)
    \/ \E p \in Callers, a \in ConcurrentCallArgs :
          job[p].at \in {"idle", "done"} /\ Call(p, a)
    \/ \E p \in Callers, r \in CollaboratorResponses : Respond(p, r, 100)
    \/ \E p \in Callers : Wake(p)
    \/ ToggleCommand
    \/ \E f \in Forces : toggleOfflineMode(f)
    \/ \E d \in TickSteps : Tick(d)

SpecCollaborators == InitConcurrent /\ [][NextCollaborators]_vars

-----------------------------------------------------------------------------
(* SpecMetadata: fetchNpmMetadata called for one or two names, its lookups  *)
(* answered in any order while the clock advances                           *)

FetchArgs == {<<"lodash">>, <<"lodash", "moment">>}

RegistryStatuses == {200, 204, 404}

MetadataLookups ==
    {Lookup(c, n, u) : c \in 1..MaxFetches, n \in PackageNames,
                       u \in {"registry", "downloads"}}

NextMetadata ==
    \/ \E names \in FetchArgs : fetchNpmMetadata(names)
    \/ \E l \in MetadataLookups, s \in RegistryStatuses : RegistryAnswers(l, s)
    \/ \E l \in MetadataLookups, s \in {200, 404} : DownloadsAnswers(l, s)
    \/ \E d \in PacerTickSteps : Tick(d)

SpecMetadata == InitConcurrent /\ [][NextMetadata]_vars

-----------------------------------------------------------------------------
(* FairSpec: Spec where every dispatch is answered and every backoff sleep *)
(* ends (axios times out after 30 s; setTimeout fires)                     *)

FairSpec ==
    /\ Spec
    /\ WF_vars(\E p \in Callers, r \in Responses, j \in Jitters : Respond(p, r, j))
    /\ WF_vars(\E p \in Callers : Wake(p))

-----------------------------------------------------------------------------
(* SpecRetry: the RateLimitHandler with the answer of every dispatch kept  *)
(* for the record, and time passing up to the pending retry waits          *)

\* the answers of axios with no Retry-After header: 200, 429, 500, none
RetryAnswers == {a \in PacerAnswers : a.retryAfter = ""}

NextRetry ==
    \/ Enqueue
    \/ \E a \in RetryAnswers : AnswerObserved(a)
    \/ Retry
    \/ TimerFires
    \/ TimePasses

SpecRetry == InitServiceSpec /\ [][NextRetry]_vars

-----------------------------------------------------------------------------
(* FairSpecPacer: the RateLimitHandler where every dispatched request is   *)
(* answered (axios times out) and every setTimeout fires: time reaches the *)
(* next pending due time, and a due timer runs its callback                *)

\* the answers of axios that settle a call in each way: 200 resolves it,
\* 429 without Retry-After is retried and, after the last retry, rejects it
LiveAnswers == {a \in PacerAnswers : a.status \in {200, 429} /\ a.retryAfter = ""}

NextPacerLive ==
    \/ Enqueue
    \/ \E a \in LiveAnswers : Answer(a)
    \/ Retry
    \/ TimerFires
    \/ clearQueue
    \/ TimePasses

FairSpecPacer ==
    /\ InitServiceSpec /\ [][NextPacerLive]_vars
    /\ WF_vars(\E a \in LiveAnswers : Answer(a))
    /\ WF_vars(Retry)
    /\ WF_vars(TimerFires)
    /\ WF_vars(TimePasses)

-----------------------------------------------------------------------------
(* Properties *)

\* a step in which caller p calls request()
CallStep(p) ==
    /\ pc[p] \in {"idle", "done"}
    /\ \/ pc'[p] # pc[p]
       \/ args'[p] # args[p]
       \/ outcome'[p] # outcome[p]
       \/ dispatches'[p] # dispatches[p]
       \/ lookups'[p] # lookups[p]
       \/ answers'[p] # answers[p]
       \/ retries'[p] # retries[p]
       \/ lastError'[p] # lastError[p]

\* a transport answer that is a retryable failure: no response, or a 5xx
RetryableFailure(r) ==
    /\ ~r.ok
    /\ \/ ~r.hasResponse
       \/ r.status >= 500 /\ r.status <= 599

RateLimitAnswer(r) == ~r.ok /\ r.hasResponse /\ r.status = 429

\* C1: a request() called while shouldUseOfflineMode() is true fails at once
\* with the offline error: no dispatch, no retry counted, no cache lookup,
\* and the cache is left as it was.
C1_OfflineFailsImmediately ==
    [][\A p \in Procs :
          (CallStep(p) /\ ShouldUseOfflineMode) =>
              /\ pc'[p] = "done"
              /\ outcome'[p] = Threw(OfflineError)
              /\ dispatches'[p] = 0
              /\ retries'[p] = 0
              /\ lookups'[p] = 0
              /\ cache' = cache
              /\ putLog' = putLog]_vars

C1_Witness ==
    /\ isOfflineMode
    /\ pc[1] = "done"
    /\ outcome[1] = Threw(OfflineError)
    /\ args[1].method = "GET"
    /\ ~args[1].forceRefresh
    /\ cache # <<>>

\* C2: when the first attempt of a request() is answered with HTTP 429, the
\* call ends with that rate-limit failure and shouldUseOfflineMode() is true
\* from then on for every caller of the shared controller.
C2_RateLimitEntersOfflineMode ==
    [][\A p \in Procs :
          (pc[p] = "inflight" /\ dispatches[p] = 1 /\ pc'[p] = "done"
              /\ Len(answers'[p]) = 1 /\ RateLimitAnswer(answers'[p][1])) =>
              /\ outcome'[p] = Threw(AxiosError(TRUE, 429))
              /\ ShouldUseOfflineMode']_vars

\* C3: a 429 answer is never retried: it is the last answer of its call,
\* whatever the attempt number and maxRetries; the call has ended with the
\* 429 error thrown and made no dispatch after the one that was answered 429.
C3_RateLimitNeverRetried ==
    \A p \in Procs :
        \A i \in 1..Len(answers[p]) :
            RateLimitAnswer(answers[p][i]) =>
                /\ i = Len(answers[p])
                /\ pc[p] = "done"
                /\ outcome[p] = Threw(AxiosError(TRUE, 429))
                /\ dispatches[p] = i

C3_Witness ==
    /\ pc[1] = "done"
    /\ Len(answers[1]) >= 2
    /\ Len(answers[1]) <= maxRetries
    /\ RateLimitAnswer(answers[1][Len(answers[1])])

\* C4: when the first k answers (k <= maxRetries) are retryable failures the
\* call goes on to attempt k+1, and when that attempt succeeds request()
\* returns its body after exactly k+1 dispatches.
C4_RetriesThenReturnsSuccess ==
    \A p \in Procs :
        \A k \in 0..maxRetries :
            (/\ Len(answers[p]) >= k
             /\ \A i \in 1..k : RetryableFailure(answers[p][i])) =>
                /\ (Len(answers[p]) = k /\ k >= 1) =>
                       \/ pc[p] = "sleeping" /\ dispatches[p] = k
                       \/ pc[p] = "inflight" /\ dispatches[p] = k + 1
                /\ (Len(answers[p]) = k + 1 /\ answers[p][k + 1].ok) =>
                       /\ pc[p] = "done"
                       /\ outcome[p] = Returned(answers[p][k + 1].body)
                       /\ dispatches[p] = k + 1

C4_Witness ==
    /\ maxRetries = 3
    /\ pc[1] = "done"
    /\ Len(answers[1]) = 3
    /\ answers[1][1] = ErrorResponse(503)
    /\ answers[1][2] = ErrorResponse(503)
    /\ answers[1][3] = OkResponse("pkg")
    /\ outcome[1] = Returned("pkg")

C5_AtMostMaxRetriesPlusOne ==
    \A p \in Procs :
        /\ dispatches[p] <= maxRetries + 1
        /\ Len(answers[p]) <= dispatches[p]
        /\ (/\ pc[p] = "done"
            /\ Len(answers[p]) >= 1
            /\ \A i \in 1..Len(answers[p]) : RetryableFailure(answers[p][i])) =>
               /\ outcome[p].kind = "threw"
               /\ outcome[p].error = lastError[p]
               /\ Len(answers[p]) = maxRetries + 1
               /\ dispatches[p] = maxRetries + 1

C5_Settles ==
    \A p \in Callers : (pc[p] \in {"inflight", "sleeping"}) ~> (pc[p] = "done")

\* C5: a call of request() makes at most maxRetries + 1 dispatches, settles
\* once its dispatches and sleeps complete, and, when every attempt fails
\* with a retryable error, throws after exactly maxRetries + 1 dispatches.
C5_BoundedRetryLoop ==
    []C5_AtMostMaxRetriesPlusOne /\ C5_Settles

C5_Witness ==
    /\ maxRetries >= 2
    /\ pc[1] = "done"
    /\ outcome[1].kind = "threw"
    /\ dispatches[1] = maxRetries + 1
    /\ \A i \in 1..Len(answers[1]) : RetryableFailure(answers[1][i])

\* C6: shouldRetry(error, attempt) is false when attempt >= maxRetries;
\* otherwise true exactly for an error without response and for a status
\* 500..599, and false for every 4xx status, 429 included.
C6_ShouldRetryTable ==
    fnOut.f = "shouldRetry" =>
        /\ fnOut.result =
              (/\ fnIn.n < maxRetries
               /\ \/ ~fnIn.hasResponse
                  \/ fnIn.status \in 500..599)
        /\ (fnIn.hasResponse /\ fnIn.status \in 400..499) => ~fnOut.result

C6_Witness ==
    /\ fnOut.f = "shouldRetry"
    /\ fnIn.hasResponse
    /\ fnIn.status = 599
    /\ fnIn.n + 1 = maxRetries
    /\ fnOut.result

\* C7: calculateBackoff(n) = min(initialBackoffMs * 2^n * jitter, 30000) with
\* jitter in [0.75, 1.25]: never above the cap and, below the cap, between
\* 0.75 and 1.25 times initialBackoffMs * 2^n.  (Delays in 1/100 ms.)
C7_BackoffWithinBounds ==
    fnOut.f = "calculateBackoff" =>
        LET base == initialBackoffMs * (2 ^ fnIn.n)
            cap == BackoffCapMs * 100
        IN  /\ fnOut.result <= cap
            /\ fnOut.result < cap =>
                  /\ fnOut.result = base * fnIn.jitter
                  /\ 75 * base <= fnOut.result
                  /\ fnOut.result <= 125 * base
            /\ fnOut.result = cap => base * fnIn.jitter >= cap

C7_Witness ==
    /\ fnOut.f = "calculateBackoff"
    /\ initialBackoffMs = 1000
    /\ fnIn.jitter < 100
    /\ fnOut.result = BackoffCapMs * 100

\* the keys and ttls the cache is asked about
ProbeKeys == {CacheKeyOf(a) : a \in CacheCallArgs}

ProbeTTLs == {1, cacheTTLMs \div 2, cacheTTLMs, 2 * cacheTTLMs}

\* C8 as stated: get(k, ttl) returns the value of the latest put of k iff
\* that put happened less than ttl ago; otherwise absent.
C8_GetIffPutWithinTTL ==
    \A k \in ProbeKeys, ttl \in ProbeTTLs :
        getFromCache(cache, k, ttl, now) =
            IF k \in DOMAIN putLog /\ now - putLog[k].at < ttl
            THEN putLog[k].value
            ELSE "null"

\* C8 amended: get(k, ttl) returns the value of the latest put of k iff
\* that put happened less than ttl ago and its entry has not since been
\* removed by clearCache or by an eviction pass; otherwise absent.
C8_GetIffLivePutWithinTTL ==
    \A k \in ProbeKeys, ttl \in ProbeTTLs :
        getFromCache(cache, k, ttl, now) =
            IF k \in DOMAIN putLog /\ putLog[k].live /\ now - putLog[k].at < ttl
            THEN putLog[k].value
            ELSE "null"

C8_Witness ==
    /\ pc[1] = "done"
    /\ lookups[1] = 1
    /\ dispatches[1] = 0
    /\ outcome[1] = Returned("pkg")
    /\ now > 0
    /\ \E k \in ProbeKeys :
          /\ k \in DOMAIN putLog
          /\ putLog[k].live
          /\ now - putLog[k].at = cacheTTLMs \div 2

\* C9: after every put and its eviction pass the cache holds at most 100
\* entries, and an eviction pass keeps exactly the entries with the most
\* recent timestamps: every removed entry is older than every kept one, or
\* as old and earlier in insertion order.
C9_EvictionKeepsNewest ==
    LET before == evicted.before
        gone == {i \in 1..Len(before) : CacheIndex(cache, before[i].key) = 0}
        kept == (1..Len(before)) \ gone
    IN  /\ Len(cache) <= MaxCacheSize
        /\ Len(cache) = Cardinality(kept)
        /\ \A j \in kept : cache[CacheIndex(cache, before[j].key)] = before[j]
        /\ Len(before) <= MaxCacheSize => gone = {}
        /\ Len(before) > MaxCacheSize => gone # {}
        /\ \A i \in gone, j \in kept :
              \/ before[i].timestamp < before[j].timestamp
              \/ before[i].timestamp = before[j].timestamp /\ i < j

C9_Witness ==
    LET before == evicted.before
        gone == {i \in 1..Len(before) : CacheIndex(cache, before[i].key) = 0}
        kept == (1..Len(before)) \ gone
    IN  /\ Len(before) = MaxCacheSize + 1
        /\ Len(cache) < Len(before)
        /\ \E i \in gone, j \in kept :
              before[i].timestamp = before[j].timestamp
        /\ \E i \in gone, j \in kept : j < i

\* C10: a GET without forceRefresh whose key was populated by a successful
\* GET less than cacheTTL ago returns the cached body with no dispatch, for
\* every stored body, the empty, zero and false ones included.
C10_FreshEntryServedFromCache ==
    [][\A p \in Procs :
          (/\ CallStep(p)
           /\ ~ShouldUseOfflineMode
           /\ IsGet(args'[p])
           /\ ~args'[p].forceRefresh
           /\ CacheKeyOf(args'[p]) \in DOMAIN putLog
           /\ putLog[CacheKeyOf(args'[p])].live
           /\ now - putLog[CacheKeyOf(args'[p])].at < CacheTTLOf(args'[p])) =>
              /\ pc'[p] = "done"
              /\ outcome'[p] = Returned(putLog[CacheKeyOf(args'[p])].value)
              /\ dispatches'[p] = 0
              /\ retries'[p] = 0]_vars

\* the entry a put of body under key k at time t stores
PutEntry(k, body, t) == [key |-> k, timestamp |-> t, data |-> body]

\* c2 is c1 after one put of e and its eviction pass: e's key holds e, no
\* other entry is new or altered, and entries are missing only when the
\* put took the Map over its capacity
IsPutOf(c1, c2, e) ==
    LET overflow == Len(c1) >= MaxCacheSize /\ CacheIndex(c1, e.key) = 0
    IN  /\ \A i \in 1..Len(c2) :
              \/ c2[i] = e
              \/ c2[i].key # e.key /\ \E j \in 1..Len(c1) : c1[j] = c2[i]
        /\ ~overflow =>
              /\ CacheIndex(c2, e.key) # 0
              /\ \A j \in 1..Len(c1) :
                    c1[j].key # e.key => \E i \in 1..Len(c2) : c2[i] = c1[j]

C12_CompletionServedFromCache ==
    [][\A p \in Procs :
          (/\ CallStep(p)
           /\ pc[p] = "done"
           /\ outcome[p].kind = "returned"
           /\ args'[p] = args[p]
           /\ ToLowerCase(args[p].method) = "post"
           /\ args[p].cacheKey # ""
           /\ ~ShouldUseOfflineMode
           /\ now < args[p].cacheTTL) =>
              /\ pc'[p] = "done"
              /\ outcome'[p] = outcome[p]
              /\ dispatches'[p] = 0]_vars

\* a step that is a call of the service operation `op`
ServiceStep(op) ==
    /\ lastOp'.op = op
    /\ UNCHANGED <<now, maxRetries, initialBackoffMs, cache, pc, args, retries,
                   lastError, backoffTime, outcome, dispatches, lookups, answers,
                   evicted, putLog, ticks, fnIn, fnOut, pacerVars, collaboratorVars, metadataVars, cancelRequested>>

\* the boolean b as toggleOfflineMode's return value is recorded
BoolRet(b) == IF b THEN "true" ELSE "false"

\* the invocations of listener l in the record r of a call
InvocationsOf(r, l) ==
    {i \in 1..Len(r.invocations) : r.invocations[i].listener = l}

\* C13: toggleOfflineMode(force) called while isRateLimited() is true leaves
\* manualOffline and rateLimitedUntil as they were, returns the pre-call
\* manualOffline and invokes no subscriber; while the lockout lasts only
\* setRateLimited changes manualOffline.
C13_ToggleRejectedWhileRateLimited ==
    [][/\ (ServiceStep("toggleOfflineMode") /\ IsRateLimited) =>
             /\ isOfflineMode' = isOfflineMode
             /\ rateLimitedUntil' = rateLimitedUntil
             /\ lastOp'.ret = BoolRet(isOfflineMode)
             /\ ~lastOp'.threw
             /\ lastOp'.invocations = <<>>
             /\ lastOp'.transitions = <<>>
       /\ (IsRateLimited /\ ~ServiceStep("setRateLimited")) =>
             isOfflineMode' = isOfflineMode]_vars

C13_Witness ==
    /\ IsRateLimited
    /\ lastOp.op = "toggleOfflineMode"
    /\ lastOp.arg = "false"
    /\ lastOp.ret = "true"
    /\ isOfflineMode
    /\ Len(listeners) >= 2

\* what toggleOfflineMode(force) makes of manualOffline
Toggled(force, mode) ==
    IF force = "undefined" THEN ~mode ELSE force = "true"

\* every registered subscriber was invoked exactly once by the call recorded
\* in r, with the state after the call's transition
EachInvokedOnce(r, registered, mode, until) ==
    \A i \in 1..Len(registered) :
        /\ Cardinality(InvocationsOf(r, registered[i])) = 1
        /\ \A j \in InvocationsOf(r, registered[i]) :
              r.invocations[j].state =
                  [isOfflineMode |-> mode, isRateLimited |-> FALSE,
                   rateLimitedUntil |-> until]

C15_RateLimitForcesOfflineUntilToggled ==
    [][/\ ServiceStep("setRateLimited") =>
             /\ \E d \in Durations :
                   /\ lastOp'.arg = ToString(d)
                   /\ rateLimitedUntil' = now + d * 1000
             /\ isOfflineMode'
             /\ IsRateLimited'
             /\ ShouldUseOfflineMode'
       /\ (IsRateLimited /\ ~IsRateLimited') =>
             /\ now' > now
             /\ now' >= rateLimitedUntil
             /\ rateLimitedUntil' = rateLimitedUntil
             /\ isOfflineMode'
             /\ ShouldUseOfflineMode'
       /\ (isOfflineMode /\ ~isOfflineMode') =>
             /\ ServiceStep("toggleOfflineMode")
             /\ ~IsRateLimited]_vars

C15_Witness ==
    /\ lastOp.op = "setRateLimited"
    /\ lastOp.arg = "60"
    /\ rateLimitedUntil # Null
    /\ now > rateLimitedUntil
    /\ ~IsRateLimited
    /\ isOfflineMode
    /\ \E i \in 1..Len(listeners) : listeners[i] = "forcesOnline"

\* the call recorded in r invoked listener l for its n-th transition
InvokedFor(r, l, n) ==
    \E i \in 1..Len(r.invocations) :
        /\ r.invocations[i].listener = l
        /\ r.invocations[i].n = n
        /\ r.invocations[i].state = r.transitions[n]

\* C16: when a state change notifies subscribers and a subscriber throws,
\* every other registered subscriber is still invoked for that change, the
\* exception is logged and does not reach the caller of toggleOfflineMode or
\* setRateLimited, and the state change stays applied.
C16_ThrowingSubscriberIsIsolated ==
    [][((ServiceStep("toggleOfflineMode") \/ ServiceStep("setRateLimited"))
        /\ InvocationsOf(lastOp', "throws") # {}) =>
          /\ ~lastOp'.threw
          /\ lastOp'.ret # "none"
          /\ lastOp'.errors = Cardinality(InvocationsOf(lastOp', "throws"))
          /\ \A n \in 1..Len(lastOp'.transitions) :
                \A i \in 1..Len(listeners) : InvokedFor(lastOp', listeners[i], n)
          /\ isOfflineMode' =
                lastOp'.transitions[Len(lastOp'.transitions)].isOfflineMode
          /\ rateLimitedUntil' =
                lastOp'.transitions[Len(lastOp'.transitions)].rateLimitedUntil
          /\ listeners' = listeners]_vars

C16_Witness ==
    /\ lastOp.op = "setRateLimited"
    /\ Len(listeners) = 3
    /\ listeners[1] = "throws"
    /\ lastOp.errors = 1
    /\ Len(lastOp.invocations) = 3
    /\ ~lastOp.threw
    /\ IsRateLimited

\* listener l is in the sequence ls
Registered(ls, l) == \E i \in 1..Len(ls) : ls[i] = l

\* C17: addListener(cb) registers cb and returns an unsubscribe handle;
\* calling the handle removes cb and nothing else, so that a later state
\* change invokes every subscriber still registered and not cb (unless cb
\* was registered again); calling the handle when cb is not registered
\* changes nothing.
C17_UnsubscribeHandle ==
    [][/\ ServiceStep("addListener") =>
             /\ lastOp'.ret = "handle"
             /\ lastOp'.arg \in handles'
             /\ Registered(listeners', lastOp'.arg)
       /\ ServiceStep("unsubscribe") =>
             /\ lastOp'.arg \in handles
             /\ ~Registered(listeners', lastOp'.arg)
             /\ \A l \in Listeners \ {lastOp'.arg} :
                   Registered(listeners', l) = Registered(listeners, l)
             /\ ~Registered(listeners, lastOp'.arg) => listeners' = listeners
             /\ isOfflineMode' = isOfflineMode
             /\ rateLimitedUntil' = rateLimitedUntil
             /\ lastOp'.invocations = <<>>
       /\ (ServiceStep("toggleOfflineMode") \/ ServiceStep("setRateLimited")) =>
             \A l \in Listeners :
                 IF Registered(listeners, l)
                 THEN \A n \in 1..Len(lastOp'.transitions) : InvokedFor(lastOp', l, n)
                 ELSE InvocationsOf(lastOp', l) = {}]_vars

C17_Witness ==
    /\ lastOp.op = "toggleOfflineMode"
    /\ "logs" \in handles
    /\ ~Registered(listeners, "logs")
    /\ Len(listeners) = 2
    /\ Len(lastOp.transitions) = 1
    /\ Len(lastOp.invocations) = 2

\* C18: across the transitions of a call of the service, those made from
\* inside a subscriber callback included, no subscriber receives the state
\* of an earlier transition after the state of a later one.  (Calls do not
\* overlap, so the invocations of different calls are ordered as the calls.)
C18_SubscribersSeeTransitionsInOrder ==
    \A i, j \in 1..Len(lastOp.invocations) :
        (i < j /\ lastOp.invocations[i].listener = lastOp.invocations[j].listener) =>
            lastOp.invocations[i].n <= lastOp.invocations[j].n

\* call id has been dispatched
Dispatched(id) == \E i \in 1..Len(dispatchLog) : dispatchLog[i] = id

\* the position of the first dispatch of call id
FirstDispatchOf(id) ==
    CHOOSE i \in 1..Len(dispatchLog) :
        /\ dispatchLog[i] = id
        /\ \A j \in 1..(i - 1) : dispatchLog[j] # id

\* C19: RateLimitHandler dispatches queued calls in submission order: of two
\* calls enqueued in the order a, b and both dispatched, a's first dispatch
\* comes before b's, whatever the interleaving of enqueue, answer, retry,
\* timer and clearQueue.
C19_DispatchInSubmissionOrder ==
    \A a, b \in 1..submitted :
        (a < b /\ Dispatched(a) /\ Dispatched(b)) =>
            FirstDispatchOf(a) < FirstDispatchOf(b)

C19_Witness ==
    /\ submitted = 3
    /\ dispatchLog = <<1, 1, 3>>
    /\ \E i \in 1..Len(settleLog) : settleLog[i] = [id |-> 2, how |-> "cleared"]
    /\ \E i \in 1..Len(settleLog) : settleLog[i] = [id |-> 1, how |-> "resolved"]
    /\ now > 0

\* C20: after a call settles, the next call is not dispatched until at least
\* delayBetweenRequests = 60000 / requestsPerMinute ms later, also when it
\* is enqueued during that interval.
C20_MinimumSpacing ==
    [][(/\ Len(dispatchLog') = Len(dispatchLog) + 1
        /\ current'.retryCount = 0
        /\ lastSettledAt # Null) =>
          now >= lastSettledAt + delayBetweenRequests]_vars

\* the settlements of call id recorded so far
SettlementsOf(id) == {i \in 1..Len(settleLog) : settleLog[i].id = id}

\* call id is waiting in the queue
Queued(id) == \E i \in 1..Len(queue) : queue[i] = id

\* a step that is a call of clearQueue() with calls waiting
ClearQueueStep ==
    /\ queue # <<>>
    /\ queue' = <<>>
    /\ dispatchLog' = dispatchLog

\* every call rejected by clearQueue() has settled once, is no longer
\* queued and has not been dispatched
C21_ClearedCallsStayCleared ==
    \A i \in 1..Len(settleLog) :
        settleLog[i].how = "cleared" =>
            /\ SettlementsOf(settleLog[i].id) = {i}
            /\ ~Queued(settleLog[i].id)
            /\ ~Dispatched(settleLog[i].id)
            /\ current.id # settleLog[i].id

\* C21: clearQueue() with N calls waiting rejects all N with the
\* queue-cleared error, leaves none pending, empties the queue, and none of
\* the N is dispatched afterwards.
C21_ClearQueueRejectsAllWaiting ==
    /\ []C21_ClearedCallsStayCleared
    /\ [][ClearQueueStep =>
             /\ Len(settleLog') = Len(settleLog) + Len(queue)
             /\ \A i \in 1..Len(queue) :
                   settleLog'[Len(settleLog) + i] = [id |-> queue[i], how |-> "cleared"]
             /\ \A i \in 1..Len(settleLog) : settleLog'[i] = settleLog[i]
             /\ Len(queue') = 0
             /\ current' = current
             /\ isProcessing' = isProcessing]_vars

C21_Witness ==
    /\ dispatchLog = <<1>>
    /\ Len(settleLog) = 3
    /\ settleLog[1] = [id |-> 2, how |-> "cleared"]
    /\ settleLog[2] = [id |-> 3, how |-> "cleared"]
    /\ settleLog[3].id = 1
    /\ timers = <<>>
    /\ now >= delayBetweenRequests
    /\ queue = <<>>

\* the keys and ttls concurrent callers look up
ConcurrentProbeKeys == {CacheKeyOf(a) : a \in ConcurrentCallArgs \cup CacheCallArgs}

\* a step in which a successful GET completes and stores its body
PutStep ==
    \E p \in Procs :
        /\ pc[p] = "inflight"
        /\ pc'[p] = "done"
        /\ outcome'[p].kind = "returned"
        /\ IsGet(args[p])

\* every entry a lookup can see is whole: the key, time and body of one
\* completed put, the latest of its key, and no key is held twice
C22_EntriesAreWhole ==
    \A i \in 1..Len(cache) :
        /\ cache[i].key \in DOMAIN putLog
        /\ cache[i] = PutEntry(cache[i].key, putLog[cache[i].key].value,
                               putLog[cache[i].key].at)
        /\ cache[i].timestamp <= now
        /\ \A j \in 1..Len(cache) : cache[j].key = cache[i].key => j = i

\* a key that was never stored, or whose latest entry was cleared or evicted
\* and not stored again, looks up as absent under every ttl
C22_ClearedKeysAreAbsent ==
    \A k \in ConcurrentProbeKeys, ttl \in ProbeTTLs :
        (k \notin DOMAIN putLog \/ ~putLog[k].live) =>
            getFromCache(cache, k, ttl, now) = "null"

\* C22: clearCache() removes every entry: from it until a successful GET
\* completes, every lookup returns absent, whatever requests are in flight;
\* and a lookup never sees a partially written entry.
C22_ClearCacheRemovesEveryEntry ==
    /\ []C22_EntriesAreWhole
    /\ []C22_ClearedKeysAreAbsent
    /\ [][/\ (cache # <<>> /\ cache' = <<>>) =>
                /\ ~PutStep
                /\ pc' = pc
                /\ \A k \in ConcurrentProbeKeys, ttl \in ProbeTTLs :
                      getFromCache(cache', k, ttl, now') = "null"
          /\ (cache = <<>> /\ ~PutStep) =>
                \A k \in ConcurrentProbeKeys, ttl \in ProbeTTLs :
                    getFromCache(cache', k, ttl, now') = "null"]_vars

\* the cache was cleared after caller 2 stored its body and while caller 1
\* is in flight: the entry is gone and caller 1's request is untouched
C22_Witness ==
    /\ pc[1] = "inflight"
    /\ pc[2] = "done"
    /\ outcome[2] = Returned("v2")
    /\ cache = <<>>
    /\ \E k \in DOMAIN putLog : putLog[k].value = "v2" /\ ~putLog[k].live

\* a step in which caller p's request() began a dispatch instead of rejecting
RequestAdmitted(p) ==
    /\ pc[p] \in {"idle", "done"}
    /\ pc'[p] = "inflight"

\* a step in which a collaborator function of caller p was called and returned
\* its local computation without calling the client
LocalFallback(p) ==
    /\ job'[p].at = "done"
    /\ jobResult'[p] \in {"basic", "fallback"}
    /\ pc' = pc
    /\ dispatches' = dispatches

\* a step in which a collaborator function of caller p was called
JobCalled(p) ==
    /\ job[p].at \in {"idle", "done"}
    /\ job'[p].fn \in Jobs
    /\ <<job'[p], jobResult'[p]>> # <<job[p], jobResult[p]>>

\* C23: the offline controller is one instance shared by all consumers: while
\* the state written by the toggle command is offline, every request() of the
\* client is rejected with the offline error, and generateRecommendations and
\* generateMigrationCode take the local fallback; the client reads the state
\* the command wrote.
C23_ToggleCommandGatesEveryConsumer ==
    /\ [](aiIsOfflineMode => ShouldUseOfflineMode)
    /\ [][\A p \in Callers :
             aiIsOfflineMode =>
                 /\ ~RequestAdmitted(p)
                 /\ JobCalled(p) => LocalFallback(p)]_vars

\* the registry lookups dispatched by a step
NewRegistryLookups ==
    {l \in registryInFlight' \ registryInFlight : l.url = "registry"}

\* C24: fetchNpmMetadata is paced and cached per identifier: at most one of
\* its registry lookups is in flight at a time, a lookup is dispatched no
\* sooner than delayBetweenRequests after the previous one, and a name whose
\* lookup succeeded less than the TTL ago is served without a dispatch.
C24_FetchIsPacedAndCached ==
    /\ [](Cardinality(registryInFlight) <= 1)
    /\ [][\A l \in NewRegistryLookups :
             /\ lastLookupAt = Null \/ now - lastLookupAt >= delayBetweenRequests
             /\ fetchedAt[l.name] = Null \/ now - fetchedAt[l.name] >= cacheTTLMs]_vars

\* a step in which generateRecommendations of caller p resumes after its
\* client request failed
ResumesAfterFailure(p) ==
    /\ job[p] = [fn |-> "generateRecommendations", at |-> "client"]
    /\ job'[p].at = "done"
    /\ outcome[p].kind = "threw"

\* C25: generateRecommendations never rejects: called while
\* shouldUseOfflineMode() is true it returns the basic recommendations without
\* calling the client, and when the client request fails (the offline error
\* included) it returns the basic recommendations instead of the failure.
C25_GenerateRecommendationsNeverRejects ==
    /\ [](\A p \in Callers : jobResult[p] # "rejected")
    /\ [][\A p \in Callers :
             /\ (/\ aiShouldUseOfflineMode
                 /\ JobCalled(p)
                 /\ job'[p].fn = "generateRecommendations")
                    => /\ LocalFallback(p)
                       /\ jobResult'[p] = "basic"
                       /\ args' = args
                       /\ lookups' = lookups
             /\ ResumesAfterFailure(p) => jobResult'[p] = "basic"]_vars

\* generateRecommendations returned the basic recommendations after the client
\* rejected its request with the offline error
C25_Witness ==
    /\ job[1] = [fn |-> "generateRecommendations", at |-> "done"]
    /\ jobResult[1] = "basic"
    /\ pc[1] = "done"
    /\ outcome[1] = Threw(OfflineError)
    /\ args[1] = RecommendationsArgs

Categories ==
    {"network", "server", "auth", "forbidden", "rateLimited", "offline", "unknown"}

\* the error of the last attempt of caller p, as the transport answered it
LastAttemptError(p) ==
    LET r == answers[p][Len(answers[p])]
    IN  AxiosError(r.hasResponse, r.status)

\* C26: every failure of request() is surfaced as a typed error carrying the
\* error of the last attempt and exactly one category among network, server,
\* auth, forbidden, rateLimited, offline and unknown; an offline rejection
\* is surfaced as offline and a 429 as rateLimited.
C26_FailuresCarryCauseAndCategory ==
    \A p \in Callers :
        outcome[p].kind = "threw" =>
            /\ SurfacedCategory(outcome[p]) \in Categories
            /\ outcome[p].error = OfflineError
                   <=> SurfacedCategory(outcome[p]) = "offline"
            /\ isRateLimitError(outcome[p].error)
                   <=> SurfacedCategory(outcome[p]) = "rateLimited"
            /\ outcome[p].error # OfflineError
                   => outcome[p].error = LastAttemptError(p)

\* two GETs for the same key are in flight, started before either completed
BothInFlight ==
    /\ pc[1] = "inflight"
    /\ pc[2] = "inflight"
    /\ IsGet(args[1])
    /\ IsGet(args[2])
    /\ CacheKeyOf(args[1]) = CacheKeyOf(args[2])

\* a step in which caller p's dispatch is answered with success
CompletesOk(p) ==
    /\ pc[p] = "inflight"
    /\ pc'[p] = "done"
    /\ outcome'[p].kind = "returned"

\* the other caller
Other(p) == CHOOSE q \in Procs : q # p

\* C27: concurrent request() calls for the same cache key are not
\* deduplicated: a GET for an uncached key started while another GET for the
\* key is in flight makes its own dispatch; each completes with its own
\* response and leaves the other in flight, and the cache holds the value of
\* the response written last.
C27_ConcurrentCallsNotDeduplicated ==
    [][\A p \in Procs :
          /\ (/\ pc[p] \in {"idle", "done"}
              /\ args'[p] # args[p] \/ pc'[p] # pc[p] \/ outcome'[p] # outcome[p]
              /\ IsGet(args'[p])
              /\ pc[Other(p)] = "inflight"
              /\ CacheKeyOf(args[Other(p)]) = CacheKeyOf(args'[p])
              /\ ~ShouldUseOfflineMode
              /\ ~Truthy(getFromCache(cache, CacheKeyOf(args'[p]),
                                      CacheTTLOf(args'[p]), now)))
                 => /\ pc'[p] = "inflight"
                    /\ dispatches'[p] = 1
                    /\ dispatches'[Other(p)] = dispatches[Other(p)]
          /\ (BothInFlight /\ CompletesOk(p))
                 => /\ outcome'[p].value = answers'[p][Len(answers'[p])].body
                    /\ pc'[Other(p)] = "inflight"
                    /\ outcome'[Other(p)] = outcome[Other(p)]
                    /\ getFromCache(cache', CacheKeyOf(args[p]), cacheTTLMs, now')
                           = outcome'[p].value]_vars

\* both callers dispatched for the same key and both completed, the first
\* with "v1" and the second with "v2": the cache holds "v2"
C27_Witness ==
    /\ pc[1] = "done"
    /\ pc[2] = "done"
    /\ dispatches[1] = 1
    /\ dispatches[2] = 1
    /\ outcome[1] = Returned("v1")
    /\ outcome[2] = Returned("v2")
    /\ CacheKeyOf(args[1]) = CacheKeyOf(args[2])
    /\ Len(cache) = 1
    /\ cache[1].data = "v2"
    /\ lookups[1] = 1
    /\ lookups[2] = 1

\* C28: the backoff sleep of request() is cancellable: once the caller has
\* asked to cancel a sleeping call, the sleep ends without a further attempt
\* being dispatched.
C28_BackoffSleepIsCancellable ==
    [][\A p \in Procs :
          (cancelRequested[p] /\ pc[p] = "sleeping") =>
              /\ pc'[p] # "inflight"
              /\ dispatches'[p] = dispatches[p]]_vars

\* C29: rateLimitedUntil is cleared lazily and only by a state read: getState()
\* resets it exactly when called at now > rateLimitedUntil; it is never reset
\* before its deadline has passed, the passing of time alone does not reset
\* it, and isRateLimited() and shouldUseOfflineMode() never modify it.  (The
\* notification of a toggle reads the state with getState() too.)
C29_DeadlineClearedLazilyByStateRead ==
    [][/\ ServiceStep("getState") =>
             rateLimitedUntil' =
                 IF rateLimitedUntil # Null /\ now > rateLimitedUntil
                 THEN Null ELSE rateLimitedUntil
       /\ (ServiceStep("isRateLimited") \/ ServiceStep("shouldUseOfflineMode"))
             => /\ rateLimitedUntil' = rateLimitedUntil
                /\ isOfflineMode' = isOfflineMode
       /\ now' # now => rateLimitedUntil' = rateLimitedUntil
       /\ (rateLimitedUntil # Null /\ rateLimitedUntil' = Null)
             => /\ now > rateLimitedUntil
                /\ lastOp'.op \in {"getState", "toggleOfflineMode"}]_vars

\* getState() found a deadline that had passed and returned the state with
\* the deadline reset
C29_Witness ==
    /\ lastOp.op = "getState"
    /\ lastOp.arg = ToString(60000)
    /\ lastOp.ret = ToString(Null)
    /\ rateLimitedUntil = Null
    /\ now > 60000
    /\ isOfflineMode

\* a step in which caller p begins a network dispatch
BeginsDispatch(p) ==
    /\ pc[p] # "inflight"
    /\ pc'[p] = "inflight"
    /\ dispatches'[p] > 0

\* C30: no network dispatch of request() begins while shouldUseOfflineMode()
\* is true, whatever the interleaving of requests and toggles; the retry of a
\* request that was sleeping in backoff when the system went offline included.
C30_NoDispatchWhileOffline ==
    [][\A p \in Procs : BeginsDispatch(p) => ~ShouldUseOfflineMode]_vars

\* C31: in every reachable state of the service, isRateLimited() implies
\* _isOfflineMode, so shouldUseOfflineMode() equals _isOfflineMode: the lockout
\* is never the only reason the system is offline.
C31_LockoutImpliesManualOffline ==
    /\ IsRateLimited => isOfflineMode
    /\ ShouldUseOfflineMode = isOfflineMode

\* during a lockout toggleOfflineMode(false) was called and refused: the
\* service is rate-limited and still offline
C31_Witness ==
    /\ IsRateLimited
    /\ isOfflineMode
    /\ lastOp.op = "toggleOfflineMode"
    /\ lastOp.arg = "false"
    /\ lastOp.ret = "true"
    /\ now > 0

\* the snapshot s, taken at time t, is consistent
ConsistentSnapshot(s, t) ==
    /\ s.isRateLimited <=> s.rateLimitedUntil # Null
    /\ s.rateLimitedUntil # Null => s.rateLimitedUntil > t

\* C32: every snapshot getState() returns, to a consumer or to
\* _notifyListeners for the subscribers, is consistent: isRateLimited is true
\* iff rateLimitedUntil is non-null, and a non-null rateLimitedUntil lies
\* strictly in the future.
C32_SnapshotsAreConsistent ==
    [][/\ ServiceStep("getState") =>
             ConsistentSnapshot(StateAt(ServiceAtCall, now), now)
       /\ lastOp' # lastOp =>
             \A i \in 1..Len(lastOp'.transitions) :
                 ConsistentSnapshot(lastOp'.transitions[i], now)]_vars

\* C33: the backoff delays of one request are non-decreasing in the attempt
\* number for every choice of jitter: whatever jitter the next attempt draws
\* in [0.75, 1.25], calculateBackoff(n + 1) >= calculateBackoff(n), up to and
\* including the cap.
C33_BackoffNonDecreasing ==
    fnOut.f = "calculateBackoff" =>
        \A next \in JitterMin..JitterMax :
            calculateBackoff(initialBackoffMs, fnIn.n + 1, next) >= fnOut.result

\* the largest draw at attempt n against the smallest at n + 1, both below
\* the cap; and the delay was computed
C33_Witness ==
    /\ fnOut.f = "calculateBackoff"
    /\ initialBackoffMs = 1000
    /\ fnIn.n = 4
    /\ fnIn.jitter = JitterMax
    /\ fnOut.result = 2000000
    /\ calculateBackoff(initialBackoffMs, fnIn.n + 1, JitterMin) = 2400000

\* C34: the RateLimitHandler is single-lane: at most one call is executing at
\* any time, its retry waits included, and between the first dispatch of a
\* call and the settlement of its promise no other call is dispatched.
C34_SingleLane ==
    /\ isProcessing <=> current # NoCurrent
    /\ current # NoCurrent => SettlementsOf(current.id) = {}
    /\ \A i \in 1..Len(dispatchLog) :
          /\ dispatchLog[i] # current.id => SettlementsOf(dispatchLog[i]) # {}
          /\ \A j \in i..Len(dispatchLog) :
                dispatchLog[j] = dispatchLog[i] =>
                    \A k \in i..j : dispatchLog[k] = dispatchLog[i]

\* call 2 is in its retry wait after a 429 while call 3 waits in the queue and
\* the spacing timer set when call 1 settled is pending
C34_Witness ==
    /\ current.id = 2
    /\ current.phase = "waiting"
    /\ queue = <<3>>
    /\ timers # <<>>
    /\ SettlementsOf(1) # {}
    /\ dispatchLog = <<1, 2>>

\* C35: every call enqueued on the RateLimitHandler is eventually settled
\* (resolved, rejected by its own failure, or rejected by clearQueue) when
\* every request is answered and every timer fires; while calls wait in
\* the queue, a call is being processed or a processQueue timer is pending
C35_EveryCallSettles ==
    /\ [](queue # <<>> => isProcessing \/ timers # <<>>)
    /\ \A id \in 1..MaxCalls :
          (submitted >= id) ~> (SettlementsOf(id) # {})

\* three calls settled in the three ways: the first resolved, the second
\* rejected by its own failure after retries, the third by clearQueue
C35_Witness ==
    /\ submitted = 3
    /\ \E i \in SettlementsOf(1) : settleLog[i].how = "resolved"
    /\ \E i \in SettlementsOf(2) : settleLog[i].how = "rejected"
    /\ \E i \in SettlementsOf(3) : settleLog[i].how = "cleared"
    /\ Len(dispatchLog) > 2
    /\ queue = <<>> /\ ~isProcessing

\* the number of requestFn() invocations made for the call id
DispatchCount(id) ==
    Cardinality({i \in 1..Len(dispatchLog) : dispatchLog[i] = id})

\* a step in which the dispatched request of the executing call is answered
AnswerStep == current.phase = "inflight" /\ current' # current

RejectsCurrent ==
    /\ settleLog' = Append(settleLog, [id |-> current.id, how |-> "rejected"])
    /\ current' = NoCurrent

\* C36: the RateLimitHandler retries a call only when it failed with HTTP
\* 429 and fewer than maxRetries retries have been made; any other failure
\* rejects the call at once, with no further dispatch, and a call that
\* keeps receiving 429 is dispatched exactly maxRetries + 1 times and then
\* rejected by its last 429 answer
C36_RetryOnly429UnderLimit ==
    /\ [][AnswerStep =>
            LET a == answered'
                is429 == ~a.ok /\ a.hasResponse /\ a.status = 429
            IN  /\ a.id = current.id
                /\ current'.phase = "waiting"
                       <=> (is429 /\ current.retryCount < pacerMaxRetries)
                /\ ~a.ok /\ ~is429 =>
                       /\ RejectsCurrent
                       /\ current.retryCount = 0 => DispatchCount(current.id) = 1
                /\ is429 /\ current.retryCount >= pacerMaxRetries =>
                       /\ RejectsCurrent
                       /\ DispatchCount(current.id) = pacerMaxRetries + 1]_vars
    /\ [][\A id \in 1..MaxCalls :
            SettlementsOf(id) # {} => DispatchCount(id)' = DispatchCount(id)]_vars
    /\ [](/\ \A id \in 1..MaxCalls : DispatchCount(id) <= pacerMaxRetries + 1
          /\ current # NoCurrent =>
                DispatchCount(current.id) = current.retryCount + 1)

\* the first call was rejected by the 429 answer of its last retry, after
\* maxRetries + 1 dispatches; the second by a 500 after a single dispatch
C36_Witness ==
    /\ \E i \in SettlementsOf(1) : settleLog[i].how = "rejected"
    /\ DispatchCount(1) = pacerMaxRetries + 1
    /\ dispatchLog = <<1, 1, 1, 1, 2>>
    /\ \E i \in SettlementsOf(2) : settleLog[i].how = "rejected"
    /\ answered.id = 2 /\ answered.status = 500 /\ answered.retryCount = 0

\* C37: the entry a put inserts is never removed by the eviction pass
\* this put triggers: right after addToCache(k, v) a lookup of k with any
\* positive ttl returns v, whatever the cache held before
C37_PutSurvivesOwnEviction ==
    [][\A p \in Procs :
          (/\ pc[p] = "inflight"
           /\ pc'[p] = "done"
           /\ outcome'[p].kind = "returned"
           /\ IsGet(args[p])) =>
              LET k == CacheKeyOf(args[p])
              IN  /\ CacheIndex(cache', k) # 0
                  /\ cache'[CacheIndex(cache', k)] =
                         PutEntry(k, outcome'[p].value, now')
                  /\ \A ttl \in {1, cacheTTLMs} :
                         getFromCache(cache', k, ttl, now') = outcome'[p].value]_vars

\* the put of a 101st key into a cache whose 100 entries carry the
\* timestamp of the put: the pass removed 20 entries, the new one is kept
C37_Witness ==
    LET k == PrefillKey(MaxCacheSize + 1)
    IN  /\ Len(evicted.before) = MaxCacheSize + 1
        /\ Len(evicted.removed) = EvictCount
        /\ evicted.before[Len(evicted.before)].key = k
        /\ \A i \in 1..Len(evicted.before) : evicted.before[i].timestamp = now
        /\ getFromCache(cache, k, 1, now) = "pkg"
        /\ Len(cache) = MaxCacheSize + 1 - EvictCount

\* caller p's previous call was a GET with forceRefresh that returned, and
\* p now makes a GET without it under the same cache key while the entry
\* that call stored is within the ttl and was not cleared
RereadsRefreshed(p) ==
    /\ CallStep(p)
    /\ ~ShouldUseOfflineMode
    /\ pc[p] = "done"
    /\ outcome[p].kind = "returned"
    /\ IsGet(args[p]) /\ args[p].forceRefresh
    /\ IsGet(args'[p]) /\ ~args'[p].forceRefresh
    /\ CacheKeyOf(args'[p]) = CacheKeyOf(args[p])
    /\ CacheKeyOf(args[p]) \in DOMAIN putLog
    /\ putLog[CacheKeyOf(args[p])].live
    /\ now - putLog[CacheKeyOf(args[p])].at < CacheTTLOf(args'[p])

\* C38: forceRefresh bypasses only the cache lookup: an admitted GET with
\* forceRefresh dispatches without a lookup even when a fresh entry exists,
\* its success overwrites the entry under its cache key with the new body
\* and the time of the put, and a later GET without forceRefresh returns
\* the refreshed value
C38_ForceRefreshOverwrites ==
    [][\A p \in Procs :
          /\ (/\ CallStep(p)
              /\ ~ShouldUseOfflineMode
              /\ IsGet(args'[p]) /\ args'[p].forceRefresh) =>
                 /\ pc'[p] = "inflight"
                 /\ dispatches'[p] = 1
                 /\ lookups'[p] = 0
                 /\ cache' = cache
          /\ (/\ pc[p] = "inflight"
              /\ pc'[p] = "done"
              /\ outcome'[p].kind = "returned"
              /\ IsGet(args[p]) /\ args[p].forceRefresh) =>
                 /\ CacheIndex(cache', CacheKeyOf(args[p])) # 0
                 /\ cache'[CacheIndex(cache', CacheKeyOf(args[p]))] =
                        PutEntry(CacheKeyOf(args[p]), outcome'[p].value, now)
          /\ RereadsRefreshed(p) =>
                 /\ pc'[p] = "done"
                 /\ outcome'[p] = Returned(outcome[p].value)
                 /\ dispatches'[p] = 0]_vars

\* every lookup of the fetchNpmMetadata call c has been answered
FetchReturned(c) == \A l \in registryInFlight : l.call # c

\* the names the packageData of call c holds an entry for
EntriesOf(c) == {n \in PackageNames : fetchCalls[c].data[n] # "none"}

\* C39: fetchNpmMetadata(names) returns a map with exactly one entry for
\* every requested name, a metadata record or a record carrying an error,
\* and the answer to one name's lookup touches no other name's entry
C39_OneEntryPerName ==
    /\ [](\A c \in 1..Len(fetchCalls) :
             /\ EntriesOf(c) \subseteq Range(fetchCalls[c].names)
             /\ FetchReturned(c) => EntriesOf(c) = Range(fetchCalls[c].names))
    /\ [][\A c \in 1..Len(fetchCalls), n \in PackageNames :
             fetchCalls'[c].data[n] # fetchCalls[c].data[n] =>
                 \E l \in registryInFlight \ registryInFlight' :
                     l.call = c /\ l.name = n]_vars

====
